---- MODULE Spec2Model ----
(***************************************************************************)
(* Query, ranking and aggregation engine of the zonal-value catalogue      *)
(* (backend/app/crud.py), over the zonal_values table that the ingestion   *)
(* service (backend/app/services/ingestion.py) fills.                      *)
(*                                                                         *)
(* Text is modelled as a sequence of one-character strings, so that trim,  *)
(* lower, LIKE and ORDER BY are computed character by character.  A SQL    *)
(* NULL / Python None text is the value NULL below.  A Numeric(18,2) is    *)
(* an integer number of hundredths; a nullable decimal is <<>> (NULL) or   *)
(* <<n>>.                                                                  *)
(***************************************************************************)
EXTENDS Integers, Sequences, FiniteSets, TLC

VARIABLES table, dialect, resp

vars == <<table, dialect, resp>>

----------------------------------------------------------------------------
(* Text primitives                                                         *)

\* SQL NULL / Python None for a text value: a sequence that is no text
\* (its only element is not a character).
NULL == <<"NULL">>

IsNull(v) == v = NULL

\* The characters of the model's texts, in code point (binary collation) order.
CodePoints ==
    << "\t", " ", "%", "*", "-", ".", "/",
       "0", "1", "2", "3", "4", "5", "6", "7", "8", "9", ":",
       "A", "B", "C", "D", "E", "F", "G", "H", "I", "J", "K", "L", "M",
       "N", "O", "P", "Q", "R", "S", "T", "U", "V", "W", "X", "Y", "Z",
       "\\", "_",
       "a", "b", "c", "d", "e", "f", "g", "h", "i", "j", "k", "l", "m",
       "n", "o", "p", "q", "r", "s", "t", "u", "v", "w", "x", "y", "z" >>

Chars == {CodePoints[i] : i \in 1..Len(CodePoints)}

Ord == [c \in Chars |-> CHOOSE i \in 1..Len(CodePoints) : CodePoints[i] = c]

UpperFirst == Ord["A"]
LowerFirst == Ord["a"]

\* str.lower() / SQL lower() on one character.
LowerChar ==
    [c \in Chars |->
        IF Ord[c] >= UpperFirst /\ Ord[c] < UpperFirst + 26
        THEN CodePoints[Ord[c] - UpperFirst + LowerFirst]
        ELSE c]

Lower(s) == [i \in 1..Len(s) |-> LowerChar[s[i]]]

\* Characters str.strip() removes; SQL trim() removes the space only.
PyWhitespace == {" ", "\t"}
SqlTrimChars == {" "}

RECURSIVE StripLeft(_, _)
StripLeft(s, ws) ==
    IF s /= <<>> /\ Head(s) \in ws THEN StripLeft(Tail(s), ws) ELSE s

RECURSIVE StripRight(_, _)
StripRight(s, ws) ==
    IF s /= <<>> /\ s[Len(s)] \in ws
    THEN StripRight(SubSeq(s, 1, Len(s) - 1), ws)
    ELSE s

StripChars(s, ws) == StripRight(StripLeft(s, ws), ws)

\* Python: value.strip()
Strip(s) == StripChars(s, PyWhitespace)

\* SQL: trim(value)
SqlTrim(s) == StripChars(s, SqlTrimChars)

\* SQL: coalesce(value, '')
Coalesce(v) == IF IsNull(v) THEN <<>> ELSE v

\* Python: value.replace(old, new) for a one-character old.
RECURSIVE Replace(_, _, _)
Replace(s, old, new) ==
    IF s = <<>> THEN <<>>
    ELSE (IF Head(s) = old THEN new ELSE <<Head(s)>>) \o Replace(Tail(s), old, new)

\* No ESCAPE character in force.
NoEscape == "none"

\* SQL: s LIKE p [ESCAPE esc] on non-NULL texts (case-sensitive; the callers
\* lower both sides where the code uses ilike or lower()).  LikeAt matches
\* s from position i against p from position j.
RECURSIVE LikeAt(_, _, _, _, _)
LikeAt(s, p, i, j, esc) ==
    IF j > Len(p) THEN i > Len(s)
    ELSE IF esc /= NoEscape /\ p[j] = esc /\ j < Len(p)
    THEN i <= Len(s) /\ s[i] = p[j + 1] /\ LikeAt(s, p, i + 1, j + 2, esc)
    ELSE IF p[j] = "%"
    THEN LikeAt(s, p, i, j + 1, esc) \/ (i <= Len(s) /\ LikeAt(s, p, i + 1, j, esc))
    ELSE IF p[j] = "_"
    THEN i <= Len(s) /\ LikeAt(s, p, i + 1, j + 1, esc)
    ELSE i <= Len(s) /\ s[i] = p[j] /\ LikeAt(s, p, i + 1, j + 1, esc)

Like(s, p, esc) == LikeAt(s, p, 1, 1, esc)

\* Binary-collation comparison of two non-NULL texts: a < b.
RECURSIVE TextLess(_, _)
TextLess(a, b) ==
    IF b = <<>> THEN FALSE
    ELSE IF a = <<>> THEN TRUE
    ELSE IF Head(a) = Head(b) THEN TextLess(Tail(a), Tail(b))
    ELSE Ord[Head(a)] < Ord[Head(b)]

----------------------------------------------------------------------------
(* Decimals and row values                                                 *)

\* A Numeric(18,2) zonal_value is an integer number of hundredths.
Scale == 100

DigitChars == <<"0", "1", "2", "3", "4", "5", "6", "7", "8", "9">>

RECURSIVE Digits(_)
Digits(n) ==
    IF n < 10 THEN <<DigitChars[n + 1]>>
    ELSE Digits(n \div 10) \o <<DigitChars[(n % 10) + 1]>>

\* cast(zonal_value, String): the text form of a non-negative Numeric(18,2),
\* "<units>.<two digits>"; NULL stays NULL.
DecimalText(v) ==
    IF v = <<>> THEN NULL
    ELSE Digits(v[1] \div Scale) \o <<".">>
         \o <<DigitChars[((v[1] % Scale) \div 10) + 1], DigitChars[(v[1] % 10) + 1]>>

\* The filter parameters of one call (None is NULL, no decimal bound is <<>>).
NoFilters ==
    [search |-> NULL, region |-> NULL, province |-> NULL, city |-> NULL,
     barangay |-> NULL, property_class |-> NULL, property_type |-> NULL,
     dataset_version |-> NULL, min_value |-> <<>>, max_value |-> <<>>,
     street |-> NULL]

\* Python truthiness of an optional str: "if value:".
Truthy(value) == ~IsNull(value) /\ value /= <<>>

----------------------------------------------------------------------------
(* crud.py helpers                                                         *)

\* _is_postgres_session taking every dialect but SQLite for PostgreSQL.
_is_postgres_session_unless_sqlite(db) == db /= "sqlite"

_is_postgres_session(db) == db = "postgresql"

\* The ESCAPE character of a LIKE / ILIKE that names none: PostgreSQL's
\* default is the backslash, SQLite has none.
DefaultEscape(db) == IF db = "postgresql" THEN "\\" ELSE NoEscape

\* column.like(pattern) in place of column.ilike(pattern).
ILike_case_sensitive(db, column, pattern) ==
    ~IsNull(column) /\ Like(column, pattern, DefaultEscape(db))

\* column.ilike(pattern): NULL column never satisfies it.
ILike(db, column, pattern) ==
    ~IsNull(column) /\ Like(Lower(column), Lower(pattern), DefaultEscape(db))

_search_blob(row) ==
    Coalesce(row.rdo_code) \o <<" ">> \o
    Coalesce(row.region) \o <<" ">> \o
    Coalesce(row.province) \o <<" ">> \o
    Coalesce(row.city_municipality) \o <<" ">> \o
    Coalesce(row.barangay) \o <<" ">> \o
    Coalesce(row.street_subdivision) \o <<" ">> \o
    Coalesce(row.property_class) \o <<" ">> \o
    Coalesce(row.property_type) \o <<" ">> \o
    Coalesce(row.dataset_version) \o <<" ">> \o
    Coalesce(DecimalText(row.zonal_value))

_normalize_token(value) == Strip(IF Truthy(value) THEN value ELSE <<>>)

_normalized_text(column) == Lower(SqlTrim(Coalesce(column)))

_like_pattern(value) ==
    <<"%">>
    \o Replace(Replace(Replace(value, "\\", <<"\\", "\\">>), "%", <<"\\", "%">>),
               "_", <<"\\", "_">>)
    \o <<"%">>

CatchAllPattern ==
    <<"%", "a", "l", "l", " ", "o", "t", "h", "e", "r", " ",
      "s", "t", "r", "e", "e", "t", "%">>

_is_catch_all_street(column) == Like(_normalized_text(column), CatchAllPattern, NoEscape)

----------------------------------------------------------------------------
(* Street priority (crud.py, _street_priority_components)                  *)

normalized_street_query(street_query) == Lower(_normalize_token(street_query))

\* _street_priority_components without the early return for an empty term.
HasStreetComponents_always(street_query) == TRUE

\* Whether _street_priority_components returns components rather than
\* (None, None, None).
HasStreetComponents(street_query) == normalized_street_query(street_query) /= <<>>

\* exact_match_condition taken as "the street contains the term".
exact_match_by_contains(row, street_query) ==
    Like(_normalized_text(row.street_subdivision),
         _like_pattern(normalized_street_query(street_query)), "\\")

exact_match_condition(row, street_query) ==
    _normalized_text(row.street_subdivision) = normalized_street_query(street_query)

contains_condition(row, street_query) ==
    Like(_normalized_text(row.street_subdivision),
         _like_pattern(normalized_street_query(street_query)), "\\")

catch_all_condition(row) == _is_catch_all_street(row.street_subdivision)

named_match_condition(row, street_query) ==
    contains_condition(row, street_query) /\ ~catch_all_condition(row)

\* same_scope_condition without coalesce: a NULL column equals nothing.
same_scope_without_coalesce(peer_row, row) ==
    /\ ~IsNull(row.province) /\ peer_row.province = row.province
    /\ ~IsNull(row.city_municipality)
    /\ peer_row.city_municipality = row.city_municipality
    /\ ~IsNull(row.barangay) /\ peer_row.barangay = row.barangay
    /\ ~IsNull(row.property_class) /\ peer_row.property_class = row.property_class
    /\ ~IsNull(row.dataset_version) /\ peer_row.dataset_version = row.dataset_version

same_scope_condition(peer_row, row) ==
    /\ Coalesce(peer_row.province) = Coalesce(row.province)
    /\ Coalesce(peer_row.city_municipality) = Coalesce(row.city_municipality)
    /\ Coalesce(peer_row.barangay) = Coalesce(row.barangay)
    /\ Coalesce(peer_row.property_class) = Coalesce(row.property_class)
    /\ Coalesce(peer_row.dataset_version) = Coalesce(row.dataset_version)

\* The peer looked for among the rows of the region of the row only.
named_peer_exists_in_region(t, row, street_query) ==
    \E i \in 1..Len(t) :
        /\ t[i].region = row.region
        /\ same_scope_condition(t[i], row)
        /\ contains_condition(t[i], street_query)
        /\ ~catch_all_condition(t[i])

\* exists(select(1).select_from(peer_row).where(...)): over the whole table t.
named_peer_exists(t, row, street_query) ==
    \E i \in 1..Len(t) :
        /\ same_scope_condition(t[i], row)
        /\ contains_condition(t[i], street_query)
        /\ ~catch_all_condition(t[i])

catch_all_fallback_condition(t, row, street_query) ==
    catch_all_condition(row) /\ ~named_peer_exists(t, row, street_query)

\* inclusion_condition without the catch-all fallback.
inclusion_without_fallback(t, row, street_query) ==
    \/ exact_match_condition(row, street_query)
    \/ named_match_condition(row, street_query)

inclusion_condition(t, row, street_query) ==
    \/ exact_match_condition(row, street_query)
    \/ named_match_condition(row, street_query)
    \/ catch_all_fallback_condition(t, row, street_query)

rank_expression(t, row, street_query) ==
    IF exact_match_condition(row, street_query) THEN 0
    ELSE IF named_match_condition(row, street_query) THEN 1
    ELSE IF catch_all_fallback_condition(t, row, street_query) THEN 2
    ELSE 3

----------------------------------------------------------------------------
(* Search (crud.py, _apply_conditions lines 116-139)                       *)

\* Characters that make up a lexeme of the 'simple' text-search
\* configuration: letters, digits, and the point inside a number.
IsTokenChar(c) == c \notin {"\t", " ", "%", "\\", "_"}

\* The lexemes of a text: its maximal runs of token characters, lowercased.
RECURSIVE Lexemes(_, _)
Lexemes(s, cur) ==
    IF s = <<>> THEN (IF cur = <<>> THEN {} ELSE {cur})
    ELSE IF IsTokenChar(Head(s))
    THEN Lexemes(Tail(s), cur \o <<LowerChar[Head(s)]>>)
    ELSE (IF cur = <<>> THEN {} ELSE {cur}) \cup Lexemes(Tail(s), <<>>)

\* to_tsvector('simple', blob) @@ websearch_to_tsquery('simple', term): every
\* lexeme of the term is a lexeme of the blob; a term without lexemes matches
\* nothing.
text_match(row, normalized_search) ==
    LET q == Lexemes(normalized_search, <<>>)
    IN  q /= {} /\ q \subseteq Lexemes(_search_blob(row), <<>>)

searchable_cols(row) ==
    << row.rdo_code, row.region, row.province, row.city_municipality,
       row.barangay, row.street_subdivision, row.property_class,
       row.property_type, row.dataset_version, DecimalText(row.zonal_value) >>

\* pattern = f"%{normalized_search}%"
search_pattern(normalized_search) == <<"%">> \o normalized_search \o <<"%">>

search_condition(db, row, search) ==
    LET normalized_search == _normalize_token(search)
        pattern == search_pattern(normalized_search)
    IN  IF _is_postgres_session(db)
        THEN text_match(row, normalized_search) \/ ILike(db, _search_blob(row), pattern)
        ELSE \E k \in 1..Len(searchable_cols(row)) :
                 ILike(db, searchable_cols(row)[k], pattern)

\* Whether _apply_conditions appends the search condition.
HasSearch(search) == Truthy(search) /\ _normalize_token(search) /= <<>>

----------------------------------------------------------------------------
(* Predicate, ordering and paging (crud.py)                                *)

\* f"%{_normalize_token(value)}%"
contains_pattern(value) == <<"%">> \o _normalize_token(value) \o <<"%">>

\* Whether _apply_conditions obtains a street rank (and an exact-match
\* condition) from _street_priority_components.
HasStreetRank(f) == Truthy(f.street) /\ HasStreetComponents(f.street)

\* dataset_version matched like the other text filters, by ILIKE '%value%'.
dataset_version_contains(row, dataset_version) ==
    ILike("sqlite", row.dataset_version, contains_pattern(dataset_version))

\* ZonalValue.dataset_version == _normalize_token(dataset_version)
dataset_version_condition(row, dataset_version) ==
    /\ ~IsNull(row.dataset_version)
    /\ row.dataset_version = _normalize_token(dataset_version)

\* The upper bound with a NULL zonal_value passing.
max_value_condition_or_null(row, max_value) ==
    row.zonal_value = <<>> \/ row.zonal_value[1] <= max_value[1]

\* ZonalValue.zonal_value <= max_value
max_value_condition(row, max_value) ==
    row.zonal_value /= <<>> /\ row.zonal_value[1] <= max_value[1]

\* _apply_conditions with zonal_value > min_value for the lower bound.
_apply_conditions_strict_min(db, t, row, f) ==
    /\ HasSearch(f.search) => search_condition(db, row, f.search)
    /\ Truthy(f.region) => ILike(db, row.region, contains_pattern(f.region))
    /\ Truthy(f.province) => ILike(db, row.province, contains_pattern(f.province))
    /\ Truthy(f.city) => ILike(db, row.city_municipality, contains_pattern(f.city))
    /\ Truthy(f.barangay) => ILike(db, row.barangay, contains_pattern(f.barangay))
    /\ Truthy(f.property_class) =>
           ILike(db, row.property_class, contains_pattern(f.property_class))
    /\ Truthy(f.property_type) =>
           ILike(db, row.property_type, contains_pattern(f.property_type))
    /\ Truthy(f.dataset_version) => dataset_version_condition(row, f.dataset_version)
    /\ f.min_value /= <<>> =>
           row.zonal_value /= <<>> /\ row.zonal_value[1] > f.min_value[1]
    /\ f.max_value /= <<>> => max_value_condition(row, f.max_value)
    /\ HasStreetRank(f) => inclusion_condition(t, row, f.street)

\* The conjunction _apply_conditions puts in the WHERE clause, for one row of
\* table t.  A comparison with a NULL column is not true, and no condition
\* on a nullable column stands under a negation.
_apply_conditions(db, t, row, f) ==
    /\ HasSearch(f.search) => search_condition(db, row, f.search)
    /\ Truthy(f.region) => ILike(db, row.region, contains_pattern(f.region))
    /\ Truthy(f.province) => ILike(db, row.province, contains_pattern(f.province))
    /\ Truthy(f.city) => ILike(db, row.city_municipality, contains_pattern(f.city))
    /\ Truthy(f.barangay) => ILike(db, row.barangay, contains_pattern(f.barangay))
    /\ Truthy(f.property_class) =>
           ILike(db, row.property_class, contains_pattern(f.property_class))
    /\ Truthy(f.property_type) =>
           ILike(db, row.property_type, contains_pattern(f.property_type))
    /\ Truthy(f.dataset_version) => dataset_version_condition(row, f.dataset_version)
    /\ f.min_value /= <<>> =>
           row.zonal_value /= <<>> /\ row.zonal_value[1] >= f.min_value[1]
    /\ f.max_value /= <<>> => max_value_condition(row, f.max_value)
    /\ HasStreetRank(f) => inclusion_condition(t, row, f.street)

\* The rows of t the statement selects.
Selected(db, t, f) ==
    {row \in {t[i] : i \in 1..Len(t)} : _apply_conditions(db, t, row, f)}

\* Three-way comparison of integers: -1, 0 or 1.
IntCmp(a, b) == IF a < b THEN -1 ELSE IF a = b THEN 0 ELSE 1

\* column.asc().nulls_last(): three-way comparison of two nullable texts.
NullsLastCmp(a, b) ==
    IF IsNull(a) THEN (IF IsNull(b) THEN 0 ELSE 1)
    ELSE IF IsNull(b) THEN -1
    ELSE IF a = b THEN 0
    ELSE IF TextLess(a, b) THEN -1 ELSE 1

\* ordering without the street rank in front.
ordering_without_rank(t, f, row) ==
    [ street_rank |-> <<>>,
      columns |-> << row.region, row.province, row.city_municipality,
                     row.barangay, row.property_class, row.street_subdivision >>,
      id |-> row.id ]

\* The ORDER BY list of _ordered_stmt evaluated on one row: the street rank
\* (<<>> when there is none), the six nullable text columns, and the id.
ordering(t, f, row) ==
    [ street_rank |-> IF HasStreetRank(f)
                      THEN <<rank_expression(t, row, f.street)>> ELSE <<>>,
      columns |-> << row.region, row.province, row.city_municipality,
                     row.barangay, row.property_class, row.street_subdivision >>,
      id |-> row.id ]

\* Three-way comparison on the text columns from the k-th on.
RECURSIVE ColumnsCmp(_, _, _)
ColumnsCmp(ca, cb, k) ==
    IF k > Len(ca) THEN 0
    ELSE LET c == NullsLastCmp(ca[k], cb[k])
         IN  IF c /= 0 THEN c ELSE ColumnsCmp(ca, cb, k + 1)

\* OrderCmp without the id as the last term.
OrderCmp_without_id(ka, kb) ==
    LET r == IF ka.street_rank = <<>> THEN 0
             ELSE IntCmp(ka.street_rank[1], kb.street_rank[1])
    IN  IF r /= 0 THEN r ELSE ColumnsCmp(ka.columns, kb.columns, 1)

\* Three-way comparison of two rows' ORDER BY values, all ascending.
OrderCmp(ka, kb) ==
    LET r == IF ka.street_rank = <<>> THEN 0
             ELSE IntCmp(ka.street_rank[1], kb.street_rank[1])
    IN  IF r /= 0 THEN r
        ELSE LET c == ColumnsCmp(ka.columns, kb.columns, 1)
             IN  IF c /= 0 THEN c ELSE IntCmp(ka.id, kb.id)

\* Every sequence of the keyed rows K that the ORDER BY allows: a row comes
\* first only if no other row sorts before it (rows that tie may come in any
\* order).
RECURSIVE OrderedBy(_)
OrderedBy(K) ==
    IF K = {} THEN {<<>>}
    ELSE UNION { { <<m.row>> \o rest : rest \in OrderedBy(K \ {m}) } :
                 m \in {x \in K : \A y \in K : OrderCmp(y.key, x.key) >= 0} }

\* stmt.order_by(*ordering) over the selected rows: the possible result
\* sequences.
_ordered_stmt(t, f, selected) ==
    OrderedBy({[row |-> r, key |-> ordering(t, f, r)] : r \in selected})

Min(a, b) == IF a < b THEN a ELSE b

\* An offset that keeps the last row before it.
OffsetLimit_from_offset(rows, n, k) ==
    SubSeq(rows, IF n = 0 THEN 1 ELSE n, Min(Len(rows), n + k))

\* .offset(n).limit(k) of a result sequence.
OffsetLimit(rows, n, k) == SubSeq(rows, n + 1, Min(Len(rows), n + k))

\* get_zonal_values with the offset taken as page * page_size.
get_zonal_values_offset_by_page(db, t, f, page, page_size) ==
    LET selected == Selected(db, t, f)
        total == Cardinality(selected)
    IN  { [rows |-> OffsetLimit(ordered, page * page_size, page_size),
           total |-> total] :
          ordered \in _ordered_stmt(t, f, selected) }

\* get_zonal_values: the possible (rows, total) results.
get_zonal_values(db, t, f, page, page_size) ==
    LET selected == Selected(db, t, f)
        total == Cardinality(selected)
    IN  { [rows |-> OffsetLimit(ordered, (page - 1) * page_size, page_size),
           total |-> total] :
          ordered \in _ordered_stmt(t, f, selected) }

\* get_zonal_values_for_export: the possible (rows, total) results.
get_zonal_values_for_export(db, t, f, limit) ==
    LET selected == Selected(db, t, f)
        total == Cardinality(selected)
    IN  { [rows |-> OffsetLimit(ordered, 0, limit), total |-> total] :
          ordered \in _ordered_stmt(t, f, selected) }

----------------------------------------------------------------------------
(* Summary (crud.py, get_zonal_summary)                                    *)

\* An exact decimal result as the fraction num / den.
Fraction(num, den) == [num |-> num, den |-> den]

\* ORDER BY zonal_value ASC over the rows S (all with a value): the values in
\* ascending order, equal values repeated.
RECURSIVE AscendingValues(_)
AscendingValues(S) ==
    IF S = {} THEN <<>>
    ELSE LET m == CHOOSE x \in S : \A y \in S : x.zonal_value[1] <= y.zonal_value[1]
         IN  <<m.zonal_value[1]>> \o AscendingValues(S \ {m})

\* The rows of the filtered subquery whose zonal_value is not NULL.
NonNull(S) == {row \in S : row.zonal_value /= <<>>}

\* The second statement of _sqlite_median_from_subquery, run over the
\* filtered rows S with the non_null_count the first statement returned (not
\* 0): median_stmt for an odd count, pair_stmt for an even one.
median_selection(S, non_null_count) ==
    LET values == AscendingValues(NonNull(S))
    IN  IF non_null_count % 2 = 1
        THEN LET middle_offset == non_null_count \div 2
                 found == OffsetLimit(values, middle_offset, 1)
             IN  IF found = <<>> THEN <<>> ELSE <<Fraction(found[1], 1)>>
        ELSE LET upper_offset == non_null_count \div 2
                 lower_offset == upper_offset - 1
                 pair == OffsetLimit(values, lower_offset, 2)
             IN  IF Len(pair) /= 2
                 THEN (IF pair /= <<>> THEN <<Fraction(pair[1], 1)>> ELSE <<>>)
                 ELSE <<Fraction(pair[1] + pair[2], 2)>>

\* _sqlite_median_from_subquery taking the upper middle element for an even
\* count instead of the mean of the two.
_sqlite_median_upper_only(S) ==
    LET non_null_count == Cardinality(NonNull(S))
        values == AscendingValues(NonNull(S))
    IN  IF non_null_count = 0 THEN <<>>
        ELSE <<Fraction(values[(non_null_count \div 2) + 1], 1)>>

\* _sqlite_median_from_subquery over the filtered rows S: <<>> is None.
_sqlite_median_from_subquery(S) ==
    LET non_null_count == Cardinality(NonNull(S))
    IN  IF non_null_count = 0 THEN <<>> ELSE median_selection(S, non_null_count)

\* percentile_cont(0.5) WITHIN GROUP (ORDER BY zonal_value) over the non-NULL
\* values: linear interpolation at row number 1 + 0.5 * (N - 1).
percentile_cont_half(S) ==
    LET values == AscendingValues(NonNull(S))
        n == Len(values)
    IN  IF n = 0 THEN <<>>
        ELSE <<Fraction(values[((n - 1) \div 2) + 1] + values[(n \div 2) + 1], 2)>>

\* func.min giving 0 instead of NULL when no value is non-NULL.
min_value_zero_when_empty(S) ==
    IF NonNull(S) = {} THEN <<0>>
    ELSE <<CHOOSE v \in {r.zonal_value[1] : r \in NonNull(S)} :
             \A r \in NonNull(S) : v <= r.zonal_value[1]>>

\* func.min / func.max over the filtered rows: <<>> when no value is non-NULL.
min_value_result(S) ==
    IF NonNull(S) = {} THEN <<>>
    ELSE <<CHOOSE v \in {r.zonal_value[1] : r \in NonNull(S)} :
             \A r \in NonNull(S) : v <= r.zonal_value[1]>>

\* func.max replaced by func.min.
max_value_result_as_min(S) ==
    IF NonNull(S) = {} THEN <<>>
    ELSE <<CHOOSE v \in {r.zonal_value[1] : r \in NonNull(S)} :
             \A r \in NonNull(S) : v <= r.zonal_value[1]>>

max_value_result(S) ==
    IF NonNull(S) = {} THEN <<>>
    ELSE <<CHOOSE v \in {r.zonal_value[1] : r \in NonNull(S)} :
             \A r \in NonNull(S) : v >= r.zonal_value[1]>>

Unspecified == <<"U", "n", "s", "p", "e", "c", "i", "f", "i", "e", "d">>

\* coalesce(property_class, 'Unspecified')
property_class_label(row) ==
    IF IsNull(row.property_class) THEN Unspecified ELSE row.property_class

\* Number of (label, count) pairs class_mix keeps.
ClassMixLimit == 8

\* GROUP BY label ORDER BY count DESC, label ASC: the groups in order.
RECURSIVE ClassGroups(_, _)
ClassGroups(S, labels) ==
    IF labels = {} THEN <<>>
    ELSE LET count(l) == Cardinality({r \in S : property_class_label(r) = l})
             first == CHOOSE l \in labels : \A o \in labels :
                          \/ o = l
                          \/ count(l) > count(o)
                          \/ (count(l) = count(o) /\ TextLess(l, o))
         IN  <<[property_class |-> first, count |-> count(first)]>>
             \o ClassGroups(S, labels \ {first})

\* class_mix without the limit.
class_mix_unlimited(S) == ClassGroups(S, {property_class_label(r) : r \in S})

class_mix(S) ==
    LET groups == ClassGroups(S, {property_class_label(r) : r \in S})
    IN  SubSeq(groups, 1, Min(Len(groups), ClassMixLimit))

\* get_zonal_summary computed without the street condition.
get_zonal_summary_without_street(db, t, f) ==
    LET filtered_subquery == Selected(db, t, [f EXCEPT !.street = NULL])
    IN  [ total_records |-> Cardinality(filtered_subquery),
          min_value |-> min_value_result(filtered_subquery),
          max_value |-> max_value_result(filtered_subquery),
          median_value |-> _sqlite_median_from_subquery(filtered_subquery),
          catch_all_records |->
              Cardinality({r \in filtered_subquery : catch_all_condition(r)}),
          exact_street_records |-> 0,
          class_mix |-> class_mix(filtered_subquery) ]

get_zonal_summary(db, t, f) ==
    LET filtered_subquery == Selected(db, t, f)
    IN  [ total_records |-> Cardinality(filtered_subquery),
          min_value |-> min_value_result(filtered_subquery),
          max_value |-> max_value_result(filtered_subquery),
          median_value |->
              IF _is_postgres_session(db)
              THEN percentile_cont_half(filtered_subquery)
              ELSE _sqlite_median_from_subquery(filtered_subquery),
          catch_all_records |->
              Cardinality({r \in filtered_subquery : catch_all_condition(r)}),
          exact_street_records |->
              IF HasStreetRank(f)
              THEN Cardinality({r \in filtered_subquery :
                                   exact_match_condition(r, f.street)})
              ELSE 0,
          class_mix |-> class_mix(filtered_subquery) ]

----------------------------------------------------------------------------
(* Lookups (crud.py, get_zonal_value_by_id .. get_location_children)       *)

\* select(ZonalValue).where(ZonalValue.id == zonal_value_id)
\* .scalar_one_or_none(): <<>> is None.
get_zonal_value_by_id(t, zonal_value_id) ==
    IF \E i \in 1..Len(t) : t[i].id = zonal_value_id
    THEN <<t[CHOOSE i \in 1..Len(t) : t[i].id = zonal_value_id]>>
    ELSE <<>>

\* ORDER BY column ASC over a set of distinct non-NULL texts.
AscendingTexts(S) ==
    LET ranked == {<<Cardinality({w \in S : TextLess(w, v)}), v>> : v \in S}
    IN  [i \in 1..Cardinality(S) |-> (CHOOSE p \in ranked : p[1] = i - 1)[2]]

\* [value for value in ... if value]
NonEmpty(values) == SelectSeq(values, LAMBDA value : value /= <<>>)

\* .limit(500) of distinct_values.
FilterOptionsLimit == 500

\* distinct_values without the limit.
distinct_values_unlimited(t, column) ==
    NonEmpty(AscendingTexts({t[i][column] : i \in 1..Len(t)} \ {NULL}))

\* distinct_values(column) of get_filter_options.
distinct_values(t, column) ==
    LET ordered == AscendingTexts({t[i][column] : i \in 1..Len(t)} \ {NULL})
    IN  NonEmpty(SubSeq(ordered, 1, Min(Len(ordered), FilterOptionsLimit)))

get_filter_options(t) ==
    [ regions |-> distinct_values(t, "region"),
      provinces |-> distinct_values(t, "province"),
      cities |-> distinct_values(t, "city_municipality"),
      barangays |-> distinct_values(t, "barangay"),
      property_classes |-> distinct_values(t, "property_class"),
      property_types |-> distinct_values(t, "property_type"),
      dataset_versions |-> distinct_values(t, "dataset_version") ]

\* get_location_children giving the barangays of the province whatever the
\* city term is.
get_location_children_any_city(db, t, province, city, limit) ==
    LET province_filter == Strip(province)
        province_pattern == <<"%">> \o province_filter \o <<"%">>
        city_rows == {t[i].city_municipality : i \in
                         {j \in 1..Len(t) :
                             /\ ILike(db, t[j].province, province_pattern)
                             /\ ~IsNull(t[j].city_municipality)}}
        barangay_rows == {t[i].barangay : i \in
                             {j \in 1..Len(t) :
                                 /\ ILike(db, t[j].province, province_pattern)
                                 /\ ~IsNull(t[j].barangay)}}
        cut(S) == LET ordered == AscendingTexts(S)
                  IN  NonEmpty(SubSeq(ordered, 1, Min(Len(ordered), limit)))
    IN  IF province_filter = <<>>
        THEN [cities |-> <<>>, barangays |-> <<>>]
        ELSE [cities |-> cut(city_rows), barangays |-> cut(barangay_rows)]

\* get_location_children: province is a str, city may be None (NULL).
get_location_children(db, t, province, city, limit) ==
    LET province_filter == Strip(province)
        province_pattern == <<"%">> \o province_filter \o <<"%">>
        city_rows == {t[i].city_municipality : i \in
                         {j \in 1..Len(t) :
                             /\ ILike(db, t[j].province, province_pattern)
                             /\ ~IsNull(t[j].city_municipality)}}
        cut(S) == LET ordered == AscendingTexts(S)
                  IN  NonEmpty(SubSeq(ordered, 1, Min(Len(ordered), limit)))
    IN  IF province_filter = <<>>
        THEN [cities |-> <<>>, barangays |-> <<>>]
        ELSE [ cities |-> cut(city_rows),
               barangays |->
                   IF Truthy(city) /\ Strip(city) /= <<>>
                   THEN LET city_pattern == <<"%">> \o Strip(city) \o <<"%">>
                        IN  cut({t[i].barangay : i \in
                                    {j \in 1..Len(t) :
                                        /\ ILike(db, t[j].province, province_pattern)
                                        /\ ILike(db, t[j].city_municipality,
                                                 city_pattern)
                                        /\ ~IsNull(t[j].barangay)}})
                   ELSE <<>> ]

----------------------------------------------------------------------------
(* Ingestion (services/ingestion.py): the only writer of the table         *)

\* _coerce_text: a missing cell or one that is empty after strip() is None.
_coerce_text(value) ==
    IF IsNull(value) THEN NULL
    ELSE IF Strip(value) = <<>> THEN NULL ELSE Strip(value)

\* The entity the column-mapped parser of ingest_workbook adds for one sheet
\* row (no default_region / default_province); the store assigns the id.
\* unit, effectivity_date, remarks and the source_* columns are not read by
\* any query and are left out.
entity(payload, dataset_version, id) ==
    [ id |-> id,
      rdo_code |-> _coerce_text(payload.rdo_code),
      region |-> _coerce_text(payload.region),
      province |-> _coerce_text(payload.province),
      city_municipality |-> _coerce_text(payload.city_municipality),
      barangay |-> _coerce_text(payload.barangay),
      street_subdivision |-> _coerce_text(payload.street_subdivision),
      property_class |-> _coerce_text(payload.property_class),
      property_type |-> _coerce_text(payload.property_type),
      zonal_value |-> payload.zonal_value,
      dataset_version |-> dataset_version ]

\* Whether the parser skips the sheet row: no value and no location field.
skipped(payload) ==
    /\ payload.zonal_value = <<>>
    /\ \A v \in { payload.region, payload.province, payload.city_municipality,
                  payload.barangay, payload.street_subdivision } :
           IsNull(_coerce_text(v))

\* The loop of ingest_workbook over the rows of one sheet: each row is
\* skipped or added, in sheet order.
ingest_rows(t, sheet, dataset_version) ==
    LET added == SelectSeq(sheet, LAMBDA payload : ~skipped(payload))
    IN  t \o [i \in 1..Len(added) |-> entity(added[i], dataset_version, Len(t) + i)]

----------------------------------------------------------------------------
(* Workbooks (services/ingestion.py): the two parsers of ingest_workbook    *)

\* str.upper() on one character and on a text.
UpperChar ==
    [c \in Chars |->
        IF Ord[c] >= LowerFirst /\ Ord[c] < LowerFirst + 26
        THEN CodePoints[Ord[c] - LowerFirst + UpperFirst]
        ELSE c]

Upper(s) == [i \in 1..Len(s) |-> UpperChar[s[i]]]

\* Python: s.startswith(prefix) and fragment in s.
StartsWith(s, prefix) ==
    Len(s) >= Len(prefix) /\ SubSeq(s, 1, Len(prefix)) = prefix

In(fragment, s) ==
    \E i \in 1..(Len(s) - Len(fragment) + 1) :
        SubSeq(s, i, i + Len(fragment) - 1) = fragment

DigitSet == {DigitChars[i] : i \in 1..Len(DigitChars)}
Letters == {CodePoints[i] : i \in UpperFirst..(UpperFirst + 25)}

\* The number a text of digits denotes (0 for the empty text).
RECURSIVE Number(_)
Number(digits) ==
    IF digits = <<>> THEN 0
    ELSE 10 * Number(SubSeq(digits, 1, Len(digits) - 1))
         + (Ord[digits[Len(digits)]] - Ord["0"])

\* re.search(r"\d+[/-]\d+[/-]\d+", text)
LooksLikeDate(text) ==
    \E i, j \in 2..(Len(text) - 1) :
        /\ i + 1 < j
        /\ text[i] \in {"/", "-"} /\ text[j] \in {"/", "-"}
        /\ text[i - 1] \in DigitSet /\ text[j + 1] \in DigitSet
        /\ \A k \in (i + 1)..(j - 1) : text[k] \in DigitSet

\* Decimal(cleaned) in hundredths, <<>> for InvalidOperation: an optional
\* sign, digits, and an optional point with at most two decimals.
DecimalOf(cleaned) ==
    LET negative == cleaned /= <<>> /\ cleaned[1] = "-"
        unsigned == IF negative THEN Tail(cleaned) ELSE cleaned
        points == {i \in 1..Len(unsigned) : unsigned[i] = "."}
        point == IF points = {} THEN Len(unsigned) + 1 ELSE CHOOSE i \in points : TRUE
        units == SubSeq(unsigned, 1, point - 1)
        decimals == SubSeq(unsigned, point + 1, Len(unsigned))
        hundredths == Scale * Number(units)
                      + (IF decimals = <<>> THEN 0
                         ELSE IF Len(decimals) = 1 THEN 10 * Number(decimals)
                         ELSE Number(decimals))
    IN  IF \/ Cardinality(points) > 1
           \/ Len(decimals) > 2
           \/ units \o decimals = <<>>
           \/ \E i \in 1..Len(units) : units[i] \notin DigitSet
           \/ \E i \in 1..Len(decimals) : decimals[i] \notin DigitSet
        THEN <<>>
        ELSE <<IF negative THEN 0 - hundredths ELSE hundredths>>

\* _safe_decimal of a cell: a blank cell is the empty text.
_safe_decimal(value) ==
    LET text == Strip(Coalesce(value))
        cleaned == SelectSeq(text, LAMBDA c : c \in DigitSet \cup {".", "-"})
    IN  IF text = <<>> THEN <<>>
        ELSE IF LooksLikeDate(text) THEN <<>>
        ELSE IF cleaned = <<>> THEN <<>>
        ELSE DecimalOf(cleaned)

CANONICAL_COLUMNS ==
    { <<"r", "d", "o", "_", "c", "o", "d", "e">>,
      <<"r", "e", "g", "i", "o", "n">>,
      <<"p", "r", "o", "v", "i", "n", "c", "e">>,
      <<"c", "i", "t", "y", "_", "m", "u", "n", "i", "c", "i", "p", "a", "l", "i", "t", "y">>,
      <<"b", "a", "r", "a", "n", "g", "a", "y">>,
      <<"s", "t", "r", "e", "e", "t", "_", "s", "u", "b", "d", "i", "v", "i", "s", "i", "o", "n">>,
      <<"p", "r", "o", "p", "e", "r", "t", "y", "_", "c", "l", "a", "s", "s">>,
      <<"p", "r", "o", "p", "e", "r", "t", "y", "_", "t", "y", "p", "e">>,
      <<"z", "o", "n", "a", "l", "_", "v", "a", "l", "u", "e">>,
      <<"u", "n", "i", "t">>,
      <<"e", "f", "f", "e", "c", "t", "i", "v", "i", "t", "y", "_", "d", "a", "t", "e">>,
      <<"r", "e", "m", "a", "r", "k", "s">> }

\* COLUMN_ALIASES as pairs <<alias, canonical column>>.
COLUMN_ALIASES ==
    { <<<<"r", "d", "o">>,
         <<"r", "d", "o", "_", "c", "o", "d", "e">>>>,
      <<<<"r", "d", "o", "_", "c", "o", "d", "e">>,
         <<"r", "d", "o", "_", "c", "o", "d", "e">>>>,
      <<<<"r", "e", "v", "e", "n", "u", "e", "_", "d", "i", "s", "t", "r", "i", "c", "t", "_", "o", "f", "f", "i", "c", "e">>,
         <<"r", "d", "o", "_", "c", "o", "d", "e">>>>,
      <<<<"r", "e", "g", "i", "o", "n">>,
         <<"r", "e", "g", "i", "o", "n">>>>,
      <<<<"p", "r", "o", "v", "i", "n", "c", "e">>,
         <<"p", "r", "o", "v", "i", "n", "c", "e">>>>,
      <<<<"c", "i", "t", "y">>,
         <<"c", "i", "t", "y", "_", "m", "u", "n", "i", "c", "i", "p", "a", "l", "i", "t", "y">>>>,
      <<<<"m", "u", "n", "i", "c", "i", "p", "a", "l", "i", "t", "y">>,
         <<"c", "i", "t", "y", "_", "m", "u", "n", "i", "c", "i", "p", "a", "l", "i", "t", "y">>>>,
      <<<<"c", "i", "t", "y", "_", "m", "u", "n", "i", "c", "i", "p", "a", "l", "i", "t", "y">>,
         <<"c", "i", "t", "y", "_", "m", "u", "n", "i", "c", "i", "p", "a", "l", "i", "t", "y">>>>,
      <<<<"c", "i", "t", "y", "_", "o", "r", "_", "m", "u", "n", "i", "c", "i", "p", "a", "l", "i", "t", "y">>,
         <<"c", "i", "t", "y", "_", "m", "u", "n", "i", "c", "i", "p", "a", "l", "i", "t", "y">>>>,
      <<<<"b", "a", "r", "a", "n", "g", "a", "y">>,
         <<"b", "a", "r", "a", "n", "g", "a", "y">>>>,
      <<<<"b", "r", "g", "y">>,
         <<"b", "a", "r", "a", "n", "g", "a", "y">>>>,
      <<<<"s", "t", "r", "e", "e", "t">>,
         <<"s", "t", "r", "e", "e", "t", "_", "s", "u", "b", "d", "i", "v", "i", "s", "i", "o", "n">>>>,
      <<<<"s", "u", "b", "d", "i", "v", "i", "s", "i", "o", "n">>,
         <<"s", "t", "r", "e", "e", "t", "_", "s", "u", "b", "d", "i", "v", "i", "s", "i", "o", "n">>>>,
      <<<<"s", "t", "r", "e", "e", "t", "_", "s", "u", "b", "d", "i", "v", "i", "s", "i", "o", "n">>,
         <<"s", "t", "r", "e", "e", "t", "_", "s", "u", "b", "d", "i", "v", "i", "s", "i", "o", "n">>>>,
      <<<<"s", "t", "r", "e", "e", "t", "_", "s", "u", "b", "d", "i", "v", "i", "s", "i", "o", "n", "_", "n", "a", "m", "e">>,
         <<"s", "t", "r", "e", "e", "t", "_", "s", "u", "b", "d", "i", "v", "i", "s", "i", "o", "n">>>>,
      <<<<"p", "r", "o", "p", "e", "r", "t", "y", "_", "c", "l", "a", "s", "s">>,
         <<"p", "r", "o", "p", "e", "r", "t", "y", "_", "c", "l", "a", "s", "s">>>>,
      <<<<"c", "l", "a", "s", "s", "i", "f", "i", "c", "a", "t", "i", "o", "n">>,
         <<"p", "r", "o", "p", "e", "r", "t", "y", "_", "c", "l", "a", "s", "s">>>>,
      <<<<"c", "l", "a", "s", "s">>,
         <<"p", "r", "o", "p", "e", "r", "t", "y", "_", "c", "l", "a", "s", "s">>>>,
      <<<<"p", "r", "o", "p", "e", "r", "t", "y", "_", "t", "y", "p", "e">>,
         <<"p", "r", "o", "p", "e", "r", "t", "y", "_", "t", "y", "p", "e">>>>,
      <<<<"t", "y", "p", "e">>,
         <<"p", "r", "o", "p", "e", "r", "t", "y", "_", "t", "y", "p", "e">>>>,
      <<<<"z", "o", "n", "a", "l", "_", "v", "a", "l", "u", "e">>,
         <<"z", "o", "n", "a", "l", "_", "v", "a", "l", "u", "e">>>>,
      <<<<"z", "o", "n", "a", "l", "_", "v", "a", "l", "u", "e", "_", "p", "e", "r", "_", "s", "q", "_", "m">>,
         <<"z", "o", "n", "a", "l", "_", "v", "a", "l", "u", "e">>>>,
      <<<<"v", "a", "l", "u", "e">>,
         <<"z", "o", "n", "a", "l", "_", "v", "a", "l", "u", "e">>>>,
      <<<<"v", "a", "l", "u", "e", "_", "p", "e", "r", "_", "s", "q", "_", "m">>,
         <<"z", "o", "n", "a", "l", "_", "v", "a", "l", "u", "e">>>>,
      <<<<"u", "n", "i", "t">>,
         <<"u", "n", "i", "t">>>>,
      <<<<"u", "o", "m">>,
         <<"u", "n", "i", "t">>>>,
      <<<<"e", "f", "f", "e", "c", "t", "i", "v", "i", "t", "y", "_", "d", "a", "t", "e">>,
         <<"e", "f", "f", "e", "c", "t", "i", "v", "i", "t", "y", "_", "d", "a", "t", "e">>>>,
      <<<<"e", "f", "f", "e", "c", "t", "i", "v", "i", "t", "y">>,
         <<"e", "f", "f", "e", "c", "t", "i", "v", "i", "t", "y", "_", "d", "a", "t", "e">>>>,
      <<<<"r", "e", "m", "a", "r", "k", "s">>,
         <<"r", "e", "m", "a", "r", "k", "s">>>>,
      <<<<"n", "o", "t", "e">>,
         <<"r", "e", "m", "a", "r", "k", "s">>>>,
      <<<<"z", "o", "n", "e", "_", "b", "a", "r", "a", "n", "g", "a", "y">>,
         <<"b", "a", "r", "a", "n", "g", "a", "y">>>>,
      <<<<"s", "t", "r", "e", "e", "t", "_", "n", "a", "m", "e", "_", "s", "u", "b", "d", "i", "v", "i", "s", "i", "o", "n", "_", "c", "o", "n", "d", "o", "m", "i", "n", "i", "u", "m">>,
         <<"s", "t", "r", "e", "e", "t", "_", "s", "u", "b", "d", "i", "v", "i", "s", "i", "o", "n">>>>,
      <<<<"z", "v", "_", "s", "q", "_", "m">>,
         <<"z", "o", "n", "a", "l", "_", "v", "a", "l", "u", "e">>>> }

AliasNames == {pair[1] : pair \in COLUMN_ALIASES}

\* re.sub(r"_+", "_", ...)
RECURSIVE CollapseUnderscores(_)
CollapseUnderscores(s) ==
    IF Len(s) < 2 THEN s
    ELSE IF s[1] = "_" /\ s[2] = "_" THEN CollapseUnderscores(Tail(s))
    ELSE <<s[1]>> \o CollapseUnderscores(Tail(s))

\* _normalize_column_name: lower case, every run of other characters than
\* letters and digits becomes one "_", and "_" is stripped at both ends.
_normalize_column_name(value) ==
    LET lowered == Lower(Strip(value))
        cleaned == [i \in 1..Len(lowered) |->
                       IF UpperChar[lowered[i]] \in Letters \cup DigitSet
                       THEN lowered[i] ELSE "_"]
    IN  StripChars(CollapseUnderscores(cleaned), {"_"})

\* _map_columns for one header cell: COLUMN_ALIASES.get(normalized, normalized)
_map_column(column) ==
    LET normalized == _normalize_column_name(column)
    IN  IF normalized \in AliasNames
        THEN (CHOOSE pair \in COLUMN_ALIASES : pair[1] = normalized)[2]
        ELSE normalized

\* The literals of the BIR parser.
lRdoNo == <<"R", "D", "O", " ", "N", "O">>
lRevenueDistrictOffice == <<"R", "E", "V", "E", "N", "U", "E", " ", "D", "I", "S", "T", "R", "I", "C", "T", " ", "O", "F", "F", "I", "C", "E">>
lNoDot == <<"N", "O", ".">>
lProvince == <<"P", "r", "o", "v", "i", "n", "c", "e">>
lCityMunicipality == <<"C", "i", "t", "y", "/", "M", "u", "n", "i", "c", "i", "p", "a", "l", "i", "t", "y">>
lMunicipality == <<"M", "u", "n", "i", "c", "i", "p", "a", "l", "i", "t", "y">>
lZoneBarangay == <<"Z", "o", "n", "e", "/", "B", "a", "r", "a", "n", "g", "a", "y">>
lBarangay == <<"B", "a", "r", "a", "n", "g", "a", "y">>
lBarangayColon == <<"B", "A", "R", "A", "N", "G", "A", "Y", ":">>
lStreetName == <<"S", "T", "R", "E", "E", "T", " ", "N", "A", "M", "E">>
lSubdivision == <<"S", "U", "B", "D", "I", "V", "I", "S", "I", "O", "N">>
lStreetSubdivision == <<"S", "T", "R", "E", "E", "T", "/", "S", "U", "B", "D", "I", "V", "I", "S", "I", "O", "N">>
lClassification == <<"C", "L", "A", "S", "S", "I", "F", "I", "C", "A", "T", "I", "O", "N">>
lClassi == <<"C", "L", "A", "S", "S", "I">>
lFication == <<"F", "I", "C", "A", "T", "I", "O", "N">>
lVicinity == <<"V", "I", "C", "I", "N", "I", "T", "Y">>
lZvSlash == <<"Z", "V", "/">>
lZv == <<"Z", "V">>
lSq == <<"S", "Q">>
lBirZonal == <<"B", "I", "R", "-", "Z", "O", "N", "A", "L">>
lLand == <<"L", "a", "n", "d">>

disallowed_fragments ==
    { <<"E", "F", "F", "E", "C", "T", "I", "V", "I", "T", "Y">>,
      <<"C", "L", "A", "S", "S", "I", "F", "I", "C", "A", "T", "I", "O", "N">>,
      <<"C", "L", "A", "S", "S", "I">>,
      <<"F", "I", "C", "A", "T", "I", "O", "N">>,
      <<"R", "E", "V", "I", "S", "I", "O", "N">>,
      <<"D", ".", "O", ".">>,
      <<"D", "O", " ", "N", "O">>,
      <<"Z", "V", "/">>,
      <<"F", "R", "O", "M">>,
      <<"T", "O">> }

\* cells[k] if len(cells) > k (k counted from 0), else the empty text.
CellAt(cells, k) == IF Len(cells) > k THEN cells[k + 1] ELSE <<>>

\* _extract_labeled_value(cells, label): None is NULL.
_extract_labeled_value(cells, label) ==
    LET first == CellAt(cells, 0)
        colons == {i \in 1..Len(first) : first[i] = ":"}
        colon == CHOOSE i \in colons : \A j \in colons : i <= j
        candidate == Strip(SubSeq(first, colon + 1, Len(first)))
    IN  IF ~StartsWith(Upper(first), Upper(label)) THEN NULL
        ELSE IF colons /= {} /\ candidate /= <<>> THEN candidate
        ELSE IF Len(cells) > 2 /\ cells[2] = <<":">>
        THEN (IF cells[3] /= <<>> THEN cells[3] ELSE NULL)
        ELSE IF Len(cells) > 1
        THEN (IF cells[2] /= <<>> THEN cells[2] ELSE NULL)
        ELSE NULL

\* PROPERTY_CLASS_PATTERN: at most two "*", one to four letters, then at most
\* four letters or digits.
MatchesClassPattern(normalized) ==
    LET stars == IF StartsWith(normalized, <<"*", "*">>) THEN 2
                 ELSE IF StartsWith(normalized, <<"*">>) THEN 1 ELSE 0
        body == SubSeq(normalized, stars + 1, Len(normalized))
    IN  /\ Len(body) >= 1 /\ Len(body) <= 8
        /\ \A i \in 1..Len(body) : body[i] \in Letters \cup DigitSet
        /\ \A i \in 1..Len(body) : (i = 1 \/ i <= Len(body) - 4) => body[i] \in Letters

_is_valid_property_class(value) ==
    LET normalized == Upper(Strip(value))
    IN  /\ normalized /= <<>>
        /\ \A fragment \in disallowed_fragments : ~In(fragment, normalized)
        /\ Len(normalized) <= 12
        /\ MatchesClassPattern(normalized)

\* The last column (counted from 0) whose cell satisfies the test, or the
\* column in force when there is none.
LastColumn(upper_cells, Test(_), current) ==
    LET hits == {k \in 1..Len(upper_cells) : Test(upper_cells[k])}
    IN  IF hits = {} THEN current
        ELSE (CHOOSE k \in hits : \A j \in hits : j <= k) - 1

\* The entity of a parser with the sheet and the row it was read from.
WithSource(row_entity, sheet_name, idx) ==
    row_entity @@ [source_sheet |-> sheet_name, source_row |-> idx + 1]

\* What _ingest_bir_zonal_sheet holds before the first row of a sheet (the
\* file name has no RDO number, no default_province).
BirStart ==
    [ rdo_code |-> NULL, province |-> NULL, city_municipality |-> NULL,
      barangay |-> NULL, street_subdivision |-> NULL,
      classification_col |-> 4, zonal_value_col |-> 5, vicinity_col |-> 3,
      inserted |-> 0, skipped |-> 0, entities |-> <<>> ]

\* One pass of the loop of _ingest_bir_zonal_sheet, on the row of index idx.
bir_row(s, row, idx, sheet_name, dataset_version, first_id) ==
    LET cells == [k \in 1..Len(row) |-> Coalesce(_coerce_text(row[k]))]
        upper_cells == [k \in 1..Len(cells) |-> Upper(cells[k])]
        cols == [s EXCEPT
                   !.classification_col =
                       LastColumn(upper_cells,
                                  LAMBDA c : \/ In(lClassification, c)
                                             \/ In(lClassi, c)
                                             \/ c = lFication,
                                  s.classification_col),
                   !.vicinity_col =
                       LastColumn(upper_cells, LAMBDA c : In(lVicinity, c),
                                  s.vicinity_col),
                   !.zonal_value_col =
                       LastColumn(upper_cells,
                                  LAMBDA c : \/ In(lZvSlash, c)
                                             \/ In(lZv, c) /\ In(lSq, c),
                                  s.zonal_value_col)]
        skip == [cols EXCEPT !.skipped = s.skipped + 1]
        first_cell == Upper(CellAt(cells, 0))
        province_candidate == _extract_labeled_value(cells, lProvince)
        city_first == _extract_labeled_value(cells, lCityMunicipality)
        city_candidate == IF Truthy(city_first) THEN city_first
                          ELSE _extract_labeled_value(cells, lMunicipality)
        barangay_first == _extract_labeled_value(cells, lZoneBarangay)
        barangay_candidate == IF Truthy(barangay_first) THEN barangay_first
                              ELSE _extract_labeled_value(cells, lBarangay)
        property_class == CellAt(cells, cols.classification_col)
        zonal_value == _safe_decimal(CellAt(cells, cols.zonal_value_col))
        row_street == CellAt(cells, 0)
        street_subdivision == IF row_street /= <<>> THEN row_street
                              ELSE s.street_subdivision
    IN  IF \A k \in 1..Len(cells) : cells[k] = <<>>
        THEN [s EXCEPT !.skipped = s.skipped + 1]
        ELSE IF StartsWith(first_cell, lRdoNo)
        THEN [skip EXCEPT !.rdo_code =
                 Strip(IF CellAt(cells, 1) = <<>> THEN cells[1]
                       ELSE cells[1] \o <<" ">> \o cells[2])]
        ELSE IF In(lRevenueDistrictOffice, first_cell) /\ In(lNoDot, first_cell)
        THEN [skip EXCEPT !.rdo_code = cells[1]]
        ELSE IF Truthy(province_candidate)
        THEN [skip EXCEPT !.province = province_candidate]
        ELSE IF Truthy(city_candidate)
        THEN [skip EXCEPT !.city_municipality = city_candidate]
        ELSE IF Truthy(barangay_candidate)
        THEN [skip EXCEPT
                 !.barangay =
                     IF StartsWith(Upper(barangay_candidate), lBarangayColon)
                     THEN Strip(SubSeq(barangay_candidate, Len(lBarangayColon) + 1,
                                       Len(barangay_candidate)))
                     ELSE barangay_candidate,
                 !.street_subdivision = NULL]
        ELSE IF \/ In(lStreetName, first_cell) /\ In(lSubdivision, first_cell)
                \/ StartsWith(first_cell, lStreetSubdivision)
        THEN [skip EXCEPT !.street_subdivision = NULL]
        ELSE IF zonal_value = <<>> \/ property_class = <<>> THEN skip
        ELSE IF ~Truthy(cols.city_municipality) /\ ~Truthy(cols.barangay) THEN skip
        ELSE IF ~_is_valid_property_class(property_class) THEN skip
        ELSE IF zonal_value[1] <= 0 THEN skip
        ELSE [cols EXCEPT
                 !.street_subdivision = street_subdivision,
                 !.inserted = s.inserted + 1,
                 !.entities = Append(s.entities,
                     WithSource([ id |-> first_id + s.inserted,
                                  rdo_code |-> s.rdo_code,
                                  region |-> NULL,
                                  province |-> s.province,
                                  city_municipality |-> s.city_municipality,
                                  barangay |-> s.barangay,
                                  street_subdivision |-> street_subdivision,
                                  property_class |-> property_class,
                                  property_type |-> lLand,
                                  zonal_value |-> zonal_value,
                                  dataset_version |-> dataset_version ],
                                sheet_name, idx))]

\* The one element of a singleton: the value of a step, computed once.
Only(S) == CHOOSE x \in S : TRUE

\* The loop of _ingest_bir_zonal_sheet over the rows from index idx on.
RECURSIVE bir_rows(_, _, _, _, _, _)
bir_rows(s, raw_df, idx, sheet_name, dataset_version, first_id) ==
    IF idx >= Len(raw_df) THEN s
    ELSE Only({ bir_rows(next, raw_df, idx + 1, sheet_name, dataset_version, first_id) :
                    next \in {bir_row(s, raw_df[idx + 1], idx, sheet_name,
                                      dataset_version, first_id)} })

\* _ingest_bir_zonal_sheet: the entities added to the session, in order, with
\* the counts it returns.
_ingest_bir_zonal_sheet(raw_df, sheet_name, dataset_version, first_id) ==
    bir_rows(BirStart, raw_df, 0, sheet_name, dataset_version, first_id)

\* df.dropna(how="all"): the indexes (from 0) of the rows with a cell.
stripped(raw_df) ==
    SelectSeq([i \in 1..Len(raw_df) |-> i - 1],
              LAMBDA idx : \E k \in 1..Len(raw_df[idx + 1]) : raw_df[idx + 1][k] /= <<>>)

\* aliases_hit of _detect_header_row for one row.
aliases_hit(row) ==
    Cardinality({_normalize_column_name(row[k]) :
                     k \in {j \in 1..Len(row) : row[j] /= <<>>}} \cap AliasNames)

\* _detect_header_row: the position (from 0) in the stripped rows of the first
\* row with the most alias hits, 0 when no row has one.
_detect_header_row(raw_df, kept) ==
    LET score == [i \in 1..Len(kept) |-> aliases_hit(raw_df[kept[i] + 1])]
        best == {i \in 1..Len(kept) :
                    /\ score[i] > 0
                    /\ \A j \in 1..Len(kept) : score[j] <= score[i]}
    IN  IF best = {} THEN 0
        ELSE (CHOOSE i \in best : \A j \in best : i <= j) - 1

\* _normalize_sheet: the mapped column names and the indexes of the rows after
\* the header row; no row when the sheet is empty.
_normalize_sheet(raw_df) ==
    LET kept == stripped(raw_df)
        header_row == _detect_header_row(raw_df, kept)
    IN  IF kept = <<>> THEN [columns |-> <<>>, rows |-> <<>>]
        ELSE [columns |-> [k \in 1..Len(raw_df[kept[header_row + 1] + 1]) |->
                              _map_column(raw_df[kept[header_row + 1] + 1][k])],
              rows |-> SubSeq(kept, header_row + 2, Len(kept))]

\* payload.get(column) for a canonical column: the cell under the first
\* column of that name, None when the sheet has no such column.
payload_get(columns, row, column) ==
    LET named == {k \in 1..Len(columns) : columns[k] = column}
    IN  IF named = {} THEN NULL
        ELSE row[CHOOSE k \in named : \A j \in named : k <= j]

\* The payload of the column-mapped parser for one row, with the value
\* through _safe_decimal.
payload_of(columns, row) ==
    [ rdo_code |-> payload_get(columns, row, <<"r", "d", "o", "_", "c", "o", "d", "e">>),
      region |-> payload_get(columns, row, <<"r", "e", "g", "i", "o", "n">>),
      province |-> payload_get(columns, row, <<"p", "r", "o", "v", "i", "n", "c", "e">>),
      city_municipality |->
          payload_get(columns, row, <<"c", "i", "t", "y", "_", "m", "u", "n", "i", "c",
                                      "i", "p", "a", "l", "i", "t", "y">>),
      barangay |-> payload_get(columns, row, <<"b", "a", "r", "a", "n", "g", "a", "y">>),
      street_subdivision |->
          payload_get(columns, row, <<"s", "t", "r", "e", "e", "t", "_", "s", "u", "b",
                                      "d", "i", "v", "i", "s", "i", "o", "n">>),
      property_class |->
          payload_get(columns, row, <<"p", "r", "o", "p", "e", "r", "t", "y", "_", "c",
                                      "l", "a", "s", "s">>),
      property_type |->
          payload_get(columns, row, <<"p", "r", "o", "p", "e", "r", "t", "y", "_", "t",
                                      "y", "p", "e">>),
      zonal_value |->
          _safe_decimal(payload_get(columns, row,
                                    <<"z", "o", "n", "a", "l", "_", "v", "a", "l", "u",
                                      "e">>)) ]

\* The loop of the column-mapped parser over the rows of the normalized
\* sheet from position n on: the entities added and the rows skipped.
RECURSIVE generic_rows(_, _, _, _, _, _, _)
generic_rows(g, raw_df, sheet, n, sheet_name, dataset_version, first_id) ==
    IF n > Len(sheet.rows) THEN g
    ELSE LET idx == sheet.rows[n]
         IN  Only({ generic_rows(
                        IF skipped(payload)
                        THEN [g EXCEPT !.skipped = g.skipped + 1]
                        ELSE [g EXCEPT
                                 !.inserted = g.inserted + 1,
                                 !.entities = Append(g.entities,
                                     WithSource(entity(payload, dataset_version,
                                                       first_id + g.inserted),
                                                sheet_name, idx))],
                        raw_df, sheet, n + 1, sheet_name, dataset_version, first_id) :
                        payload \in {payload_of(sheet.columns, raw_df[idx + 1])} })

\* dataset_version.upper().startswith("BIR-ZONAL")
bir_dataset_mode(dataset_version) == StartsWith(Upper(dataset_version), lBirZonal)

\* The column-mapped parser on one sheet: _normalize_sheet, then the loop
\* over its rows.
column_mapped_sheet(raw_df, sheet_name, dataset_version, first_id) ==
    Only({ generic_rows([inserted |-> 0, skipped |-> 0, entities |-> <<>>],
                        raw_df, sheet, 1, sheet_name, dataset_version, first_id) :
               sheet \in {_normalize_sheet(raw_df)} })

\* One pass of the loop of ingest_workbook over the sheets, with the
\* column-mapped parser running after the BIR parser in every case.
ingest_sheet_with_both_parsers(raw_df, sheet_name, dataset_version, first_id) ==
    Only({ Only({ [ entities |-> bir.entities \o generic.entities,
                    inserted |-> bir.inserted + generic.inserted,
                    skipped |-> bir.skipped + generic.skipped,
                    bir_inserted |-> bir.inserted,
                    generic_ran |-> TRUE ] :
                      generic \in {column_mapped_sheet(raw_df, sheet_name,
                                                       dataset_version,
                                                       first_id + bir.inserted)} }) :
               bir \in {_ingest_bir_zonal_sheet(raw_df, sheet_name, dataset_version,
                                                first_id)} })

\* One pass of the loop of ingest_workbook over the sheets: the entities
\* added to the session, what is added to inserted and to skipped, and which
\* parser ran to the end.
ingest_sheet(raw_df, sheet_name, dataset_version, first_id) ==
    Only({ IF bir.inserted > 0 \/ bir_dataset_mode(dataset_version)
           THEN [ entities |-> bir.entities,
                  inserted |-> bir.inserted,
                  skipped |-> IF bir.inserted > 0 THEN bir.skipped ELSE Len(raw_df),
                  bir_inserted |-> bir.inserted,
                  generic_ran |-> FALSE ]
           ELSE Only({ [ entities |-> bir.entities \o generic.entities,
                         inserted |-> generic.inserted,
                         skipped |-> generic.skipped,
                         bir_inserted |-> bir.inserted,
                         generic_ran |-> TRUE ] :
                           generic \in {column_mapped_sheet(raw_df, sheet_name,
                                                            dataset_version,
                                                            first_id + bir.inserted)} }) :
               bir \in {_ingest_bir_zonal_sheet(raw_df, sheet_name, dataset_version,
                                                first_id)} })

\* ingest_workbook over the sheets from number k on (sheet names are the
\* numbers): the entities added before the commit, the counts returned, and
\* for each sheet what ingest_sheet reports.
RECURSIVE ingest_sheets(_, _, _, _, _)
ingest_sheets(w, sheets, k, dataset_version, first_id) ==
    IF k > Len(sheets) THEN w
    ELSE Only({ ingest_sheets(next, sheets, k + 1, dataset_version, first_id) :
                    next \in { [ added |-> w.added \o one.entities,
                                 inserted |-> w.inserted + one.inserted,
                                 skipped |-> w.skipped + one.skipped,
                                 parsers |-> Append(w.parsers,
                                     [bir_inserted |-> one.bir_inserted,
                                      generic_ran |-> one.generic_ran]) ] :
                               one \in {ingest_sheet(sheets[k], k, dataset_version,
                                                     first_id + Len(w.added))} } })

ingest_workbook(sheets, dataset_version, first_id) ==
    ingest_sheets([added |-> <<>>, inserted |-> 0, skipped |-> 0, parsers |-> <<>>],
                  sheets, 1, dataset_version, first_id)

----------------------------------------------------------------------------
(* Bounds                                                                  *)

\* Most rows the table holds in the street and search scenarios.
MaxRows == 3

\* Most rows the table holds in the median scenario.
MaxValues == 4

\* Largest page number a call asks for.
MaxPage == 2

\* Page sizes a call asks for: one that splits the table into pages, and
\* one that holds it whole.
PageSizes == {2, MaxRows}

----------------------------------------------------------------------------
(* Texts of the checked scenarios                                          *)

tNCR == <<"N", "C", "R">>
tBicol == <<"B", "i", "c", "o", "l">>
tCebu == <<"C", "e", "b", "u">>
tRES == <<"R", "E", "S">>
tCOM == <<"C", "O", "M">>
tV1 == <<"v", "1">>
tMain == <<"M", "a", "i", "n">>
tMAINpadded == <<" ", "M", "A", "I", "N", " ">>
tOldMain == <<"O", "l", "d", " ", "M", "a", "i", "n">>
tAllOther ==
    <<"A", "l", "l", " ", "O", "t", "h", "e", "r", " ",
      "S", "t", "r", "e", "e", "t", "s">>
tMainAllOther == tMain \o <<" ">> \o tAllOther
tM_in == <<"M", "_", "i", "n">>
tBlank == <<" ", " ">>
tRes == <<"r", "e", "s">>
t50pctLot == <<"5", "0", "%", " ", "L", "o", "t">>
t50pct == <<"5", "0", "%">>
tR_S == <<"R", "_", "S">>
tNcrCebu == <<"n", "c", "r", " ", "c", "e", "b", "u">>
tNcrPadded == <<" ", "n", "c", "r", " ">>
tV1padded == <<" ", "v", "1", " ">>
tV10 == <<"v", "1", "0">>
tCebuCity == <<"C", "e", "b", "u", " ", "C", "i", "t", "y">>
tMandaue == <<"M", "a", "n", "d", "a", "u", "e">>
tLahug == <<"L", "a", "h", "u", "g">>
tApas == <<"A", "p", "a", "s">>
tCebuPadded == <<" ", "c", "e", "b", "u", " ">>
tCity == <<"c", "i", "t", "y">>

\* A sheet row with no cell filled.
EmptyPayload ==
    [ rdo_code |-> NULL, region |-> NULL, province |-> NULL,
      city_municipality |-> NULL, barangay |-> NULL, street_subdivision |-> NULL,
      property_class |-> NULL, property_type |-> NULL, zonal_value |-> <<>> ]

StreetPayload(region, province, property_class, street) ==
    [EmptyPayload EXCEPT !.region = region, !.province = province,
                         !.property_class = property_class,
                         !.street_subdivision = street,
                         !.zonal_value = <<1000>>]

\* Most rows the table holds in the class-mix scenarios.
MaxClassRows == 12

\* Most rows a sheet of the workbook scenarios has.
MaxSheetRows == 3

\* Most rows the table holds after the sheet of the filter-option scenarios
\* that has more regions than get_filter_options lists.
MaxFilterRows == 501

\* Sheet rows of the street scenarios: a street containing the term "main"
\* and a catch-all of its scope; an exact street and a catch-all of a scope
\* with NULL columns (and NULL region); a catch-all that contains the term.
StreetPayloads ==
    { StreetPayload(tNCR, tCebu, tRES, tOldMain),
      StreetPayload(tNCR, tCebu, tRES, tAllOther),
      StreetPayload(NULL, NULL, tRES, tMAINpadded),
      StreetPayload(NULL, NULL, tRES, tAllOther),
      StreetPayload(tBicol, tCebu, tCOM, tMainAllOther) }

\* No street term, a padded upper-case one, one with a LIKE metacharacter that
\* no street holds, a catch-all street itself, and a blank one.
StreetTerms == {NULL, tMAINpadded, tM_in, tAllOther, tBlank}

StreetQueries ==
    { [NoFilters EXCEPT !.street = s] : s \in StreetTerms }
    \cup { [NoFilters EXCEPT !.street = s, !.property_class = tRes] :
           s \in {NULL, tMAINpadded} }

\* Filters of the paging scenarios: none, a street term with named and
\* catch-all matches, and the catch-all street itself.
PagingQueries ==
    { [NoFilters EXCEPT !.street = s] : s \in {NULL, tMAINpadded, tAllOther} }

\* Page sizes below the size of the table.
SmallPageSizes == {1, 2}

\* Sheet rows of the sibling scenarios: a catch-all row; a named row of the
\* same scope (province, class) with another region and a higher value; a
\* named row and a catch-all row of another scope.
SiblingPayloads ==
    { StreetPayload(tNCR, tCebu, tRES, tAllOther),
      [StreetPayload(tBicol, tCebu, tRES, tOldMain) EXCEPT !.zonal_value = <<3000>>],
      StreetPayload(tNCR, tBicol, tRES, tOldMain),
      StreetPayload(tNCR, tNCR, tRES, tAllOther) }

\* A street term alone and with a region, a value bound or a search term
\* that the named row of the other region fails; the same without street.
SiblingQueries ==
    LET others == { NoFilters,
                    [NoFilters EXCEPT !.region = tNCR],
                    [NoFilters EXCEPT !.max_value = <<2000>>],
                    [NoFilters EXCEPT !.search = tNCR] }
    IN  others \cup { [f EXCEPT !.street = tMAINpadded] : f \in others }

\* Sheet rows of the scenarios with ingestion during a call: rows without
\* value and with three values.
ConcurrentPayloads ==
    { [EmptyPayload EXCEPT !.region = tNCR, !.zonal_value = v] :
      v \in {<<>>, <<1000>>, <<2000>>, <<4000>>} }

ConcurrentQueries == {NoFilters, [NoFilters EXCEPT !.max_value = <<2000>>]}

\* A sheet row of six cells with a first cell, a classification and a value.
SheetRow(first, classification, zonal_value) ==
    <<first, <<>>, <<>>, <<>>, classification, zonal_value>>

\* Rows of the workbook scenarios: a blank row, the column headers, a
\* barangay label, a row with street, class and value, and one without value.
SheetRows ==
    { SheetRow(<<>>, <<>>, <<>>),
      <<<<"S", "t", "r", "e", "e", "t", "/", "S", "u", "b", "d", "i", "v", "i", "s", "i", "o", "n">>, <<>>, <<>>,
        <<"V", "i", "c", "i", "n", "i", "t", "y">>,
        <<"C", "l", "a", "s", "s", "i", "f", "i", "c", "a", "t", "i", "o", "n">>,
        <<"Z", "V", "/", "S", "Q", ".", "M">>>>,
      SheetRow(<<"B", "a", "r", "a", "n", "g", "a", "y", ":", " ", "L", "a", "h", "u", "g">>, <<>>, <<>>),
      SheetRow(tMain, tRES, <<"1", "0", "0", "0">>),
      SheetRow(tMain, tRES, <<>>) }

SheetsOf(n) == [1..n -> SheetRows]

\* Sheets each parser can read: column headers and a row; a barangay label
\* and a row.
SecondSheets ==
    { << <<<<"S", "t", "r", "e", "e", "t", "/", "S", "u", "b", "d", "i", "v", "i", "s", "i", "o", "n">>, <<>>, <<>>,
           <<"V", "i", "c", "i", "n", "i", "t", "y">>,
           <<"C", "l", "a", "s", "s", "i", "f", "i", "c", "a", "t", "i", "o", "n">>,
           <<"Z", "V", "/", "S", "Q", ".", "M">>>>,
         SheetRow(tMain, tRES, <<"1", "0", "0", "0">>) >>,
      << SheetRow(<<"B", "a", "r", "a", "n", "g", "a", "y", ":", " ", "L", "a", "h", "u", "g">>, <<>>, <<>>),
         SheetRow(tMain, tRES, <<"1", "0", "0", "0">>) >> }

\* The workbooks of one sheet of at most MaxSheetRows rows, and those of a
\* shorter sheet followed by one of the sheets above.
Workbooks ==
    { <<sheet>> : sheet \in UNION {SheetsOf(n) : n \in 0..MaxSheetRows} }
    \cup { <<first, second>> :
               first \in UNION {SheetsOf(n) : n \in 1..(MaxSheetRows - 1)},
               second \in SecondSheets }

\* A version outside the BIR mode and two in it (upper() makes the second one).
WorkbookVersions == {tV1, <<"B", "I", "R", "-", "Z", "O", "N", "A", "L">>, <<"b", "i", "r", "-", "z", "o", "n", "a", "l">>}

\* Sheet rows of the search scenarios: a street holding "50%", a value whose
\* text holds "50" but no "%", a row with only a value, rows whose region
\* and province are adjacent in the search blob, and a row the parser skips.
SearchPayloads ==
    { [EmptyPayload EXCEPT !.region = tNCR, !.province = tCebu,
                           !.street_subdivision = t50pctLot,
                           !.zonal_value = <<1000>>],
      [EmptyPayload EXCEPT !.province = tCebu, !.property_class = tRES,
                           !.street_subdivision = tMain,
                           !.zonal_value = <<5000>>],
      [EmptyPayload EXCEPT !.zonal_value = <<2000>>],
      [EmptyPayload EXCEPT !.region = tNCR, !.barangay = tCebu,
                           !.property_type = tRES],
      EmptyPayload }

SearchQueries ==
    { NoFilters,
      [NoFilters EXCEPT !.search = t50pct],
      [NoFilters EXCEPT !.search = tR_S],
      [NoFilters EXCEPT !.search = tNcrCebu],
      [NoFilters EXCEPT !.search = tCebu],
      [NoFilters EXCEPT !.search = tBlank],
      [NoFilters EXCEPT !.region = tBlank],
      [NoFilters EXCEPT !.region = tNcrPadded],
      [NoFilters EXCEPT !.province = tBlank],
      [NoFilters EXCEPT !.city = tBlank],
      [NoFilters EXCEPT !.barangay = tBlank],
      [NoFilters EXCEPT !.property_class = tBlank],
      [NoFilters EXCEPT !.property_type = tBlank],
      [NoFilters EXCEPT !.dataset_version = tBlank],
      [NoFilters EXCEPT !.dataset_version = tV1padded] }

\* Sheet rows of the median scenarios: 10.00, 10.05, 20.00, 30.00, 40.00 or
\* no value.
MedianPayloads ==
    { [EmptyPayload EXCEPT !.region = tNCR, !.zonal_value = v] :
      v \in {<<>>, <<1000>>, <<1005>>, <<2000>>, <<3000>>, <<4000>>} }

\* No filter, each bound alone, both bounds, a lower bound above the upper
\* one, and a street term (no row of these scenarios has a street).
MedianQueries ==
    { NoFilters,
      [NoFilters EXCEPT !.min_value = <<1005>>],
      [NoFilters EXCEPT !.max_value = <<2000>>],
      [NoFilters EXCEPT !.min_value = <<1005>>, !.max_value = <<2000>>],
      [NoFilters EXCEPT !.min_value = <<3000>>, !.max_value = <<2000>>],
      [NoFilters EXCEPT !.street = tMain] }

\* A sheet whose rows carry the given property classes and a value.
ClassSheet(classes) ==
    [i \in 1..Len(classes) |->
        [EmptyPayload EXCEPT !.property_class = classes[i],
                             !.zonal_value = <<1000>>]]

\* Sheets of the class-mix scenarios: eight classes, a row without class
\* next to class X, class A next to a row without class, and a ninth class.
ClassSheets ==
    { ClassSheet(<< <<"A">>, <<"B">>, <<"C">>, <<"D">>,
                    <<"E">>, <<"F">>, <<"G">>, <<"H">> >>),
      ClassSheet(<< NULL, <<"X">> >>),
      ClassSheet(<< <<"A">>, NULL >>),
      ClassSheet(<< <<"I">> >>) }

ClassQueries ==
    { NoFilters, [NoFilters EXCEPT !.min_value = <<1000>>] }

LocationPayload(province, city_municipality, barangay) ==
    [EmptyPayload EXCEPT !.province = province,
                         !.city_municipality = city_municipality,
                         !.barangay = barangay,
                         !.zonal_value = <<1000>>]

\* Sheet rows of the lookup scenarios: two barangays of one city, a city
\* without barangay, and a row of another province without city.
LocationPayloads ==
    { LocationPayload(tCebu, tCebuCity, tLahug),
      LocationPayload(tCebu, tCebuCity, tApas),
      LocationPayload(tCebu, tMandaue, NULL),
      LocationPayload(tBicol, NULL, tApas) }

\* province, city and limit of GET /zonal-values/location-children.
LocationProvinces == {tBlank, tCebuPadded, tBicol}
LocationCities == {NULL, tBlank, tCity}

\* dataset_version filters: a stored version, the same padded, a proper
\* prefix of both stored versions, another letter case, and the longer one.
VersionQueries ==
    { NoFilters }
    \cup { [NoFilters EXCEPT !.dataset_version = v] :
             v \in {tV1, tV1padded, <<"v">>, <<"V", "1">>, tV10} }

\* A sheet with one more region than get_filter_options lists: regions
\* "1" .. "501".
ManyRegionsSheet ==
    [i \in 1..(FilterOptionsLimit + 1) |->
        [EmptyPayload EXCEPT !.region = Digits(i)]]

----------------------------------------------------------------------------
(* State machine                                                           *)

Dialects == {"postgresql", "sqlite"}

\* The fields class Settings declares (config.py), with their defaults;
\* extra="ignore" drops every other name found in the environment.
settings ==
    [ app_name |-> "ZonalHub API",
      api_prefix |-> "/api/v1",
      database_url |-> "sqlite:///./zonalhub.db",
      default_page_size |-> 25,
      max_page_size |-> 200 ]

\* Whether obj.name yields a value rather than raising AttributeError.
HasAttr(obj, name) == name \in DOMAIN obj

\* No request is being served.
NoResp == [op |-> "none"]

\* ingest_workbook on a workbook of one sheet row: the row is added and
\* committed unless the parser skips it.
IngestWorkbook(payloads, versions, max_rows) ==
    /\ resp = NoResp
    /\ Len(table) < max_rows
    /\ \E payload \in payloads, dataset_version \in versions :
           table' = IF skipped(payload) THEN table
                    ELSE Append(table, entity(payload, dataset_version, Len(table) + 1))
    /\ UNCHANGED <<dialect, resp>>

\* ingest_workbook on a workbook of one sheet with several rows, all added
\* in one commit.
IngestSheet(sheets, versions, max_rows) ==
    /\ resp = NoResp
    /\ \E sheet \in sheets, dataset_version \in versions :
           /\ Len(table) + Len(sheet) <= max_rows
           /\ table' = ingest_rows(table, sheet, dataset_version)
    /\ UNCHANGED <<dialect, resp>>

\* GET /zonal-values: list_zonal_values calls crud.get_zonal_values.
ListZonalValues(queries, pages, page_sizes) ==
    /\ resp = NoResp
    /\ \E f \in queries, page \in pages, page_size \in page_sizes :
         \E out \in get_zonal_values(dialect, table, f, page, page_size) :
           resp' = [op |-> "list", f |-> f, page |-> page, page_size |-> page_size,
                    rows |-> out.rows, total |-> out.total]
    /\ UNCHANGED <<table, dialect>>

\* GET /zonal-values/summary: calls crud.get_zonal_summary.
GetZonalSummary(queries) ==
    /\ resp = NoResp
    /\ \E f \in queries :
           resp' = [op |-> "summary", f |-> f,
                    summary |-> get_zonal_summary(dialect, table, f)]
    /\ UNCHANGED <<table, dialect>>

\* GET /zonal-values/export: export_zonal_values reads the row limit from
\* settings.export_max_rows while evaluating the arguments of
\* crud.get_zonal_values_for_export.  Reading an attribute that Settings does
\* not declare raises AttributeError, which the framework answers with
\* status 500; otherwise the rows are returned and the response is flagged as
\* truncated when more rows match than the limit.
ExportZonalValues(queries) ==
    /\ resp = NoResp
    /\ \E f \in queries :
         IF HasAttr(settings, "export_max_rows")
         THEN \E out \in get_zonal_values_for_export(dialect, table, f,
                                                     settings.export_max_rows) :
                resp' = [op |-> "export", f |-> f, status |-> 200,
                         limit |-> settings.export_max_rows,
                         rows |-> out.rows, total |-> out.total,
                         truncated |-> out.total > settings.export_max_rows]
         ELSE resp' = [op |-> "export", f |-> f, status |-> 500,
                       error |-> "AttributeError"]
    /\ UNCHANGED <<table, dialect>>

\* GET /zonal-values/{zonal_value_id}: 404 when no row has the id.
GetZonalValue_deleting(ids) ==
    /\ resp = NoResp
    /\ \E zonal_value_id \in ids :
           LET row == get_zonal_value_by_id(table, zonal_value_id)
           IN  /\ resp' = [op |-> "get", id |-> zonal_value_id,
                           status |-> IF row = <<>> THEN 404 ELSE 200, row |-> row]
               /\ table' = SelectSeq(table, LAMBDA r : r.id /= zonal_value_id)
    /\ UNCHANGED dialect

GetZonalValue(ids) ==
    /\ resp = NoResp
    /\ \E zonal_value_id \in ids :
           LET row == get_zonal_value_by_id(table, zonal_value_id)
           IN  resp' = [op |-> "get", id |-> zonal_value_id,
                        status |-> IF row = <<>> THEN 404 ELSE 200, row |-> row]
    /\ UNCHANGED <<table, dialect>>

\* GET /zonal-values/filters: list_filters calls crud.get_filter_options.
GetFilterOptions ==
    /\ resp = NoResp
    /\ resp' = [op |-> "filters", options |-> get_filter_options(table)]
    /\ UNCHANGED <<table, dialect>>

\* GET /zonal-values/location-children: calls crud.get_location_children.
GetLocationChildren(provinces, cities, limits) ==
    /\ resp = NoResp
    /\ \E province \in provinces, city \in cities, limit \in limits :
           resp' = [op |-> "location_children", province |-> province,
                    city |-> city, limit |-> limit,
                    children |-> get_location_children(dialect, table, province,
                                                       city, limit)]
    /\ UNCHANGED <<table, dialect>>

\* ingest_workbook of another process commits a workbook of one sheet row,
\* whether or not a call of this process is between two of its statements.
IngestCommit(payloads, versions, max_rows) ==
    /\ Len(table) < max_rows
    /\ \E payload \in payloads, dataset_version \in versions :
           table' = IF skipped(payload) THEN table
                    ELSE Append(table, entity(payload, dataset_version, Len(table) + 1))
    /\ UNCHANGED <<dialect, resp>>

\* A statement of a call reads the rows committed when it is executed: the
\* session of the call gives its statements no common snapshot.
Visible == table

\* get_zonal_values, first statement: total = db.execute(count_stmt).
CountZonalValues(queries, pages, page_sizes) ==
    /\ resp = NoResp
    /\ \E f \in queries, page \in pages, page_size \in page_sizes :
           resp' = [op |-> "list_count", f |-> f, page |-> page,
                    page_size |-> page_size,
                    total |-> Cardinality(Selected(dialect, Visible, f)),
                    counted_on |-> Visible]
    /\ UNCHANGED <<table, dialect>>

\* get_zonal_values, second statement: rows = db.execute(stmt), and return.
\* counted_on and selected_on record what each statement read.
SelectZonalValues ==
    /\ resp.op = "list_count"
    /\ \E ordered \in _ordered_stmt(Visible, resp.f,
                                     Selected(dialect, Visible, resp.f)) :
           resp' = [op |-> "list", f |-> resp.f, page |-> resp.page,
                    page_size |-> resp.page_size,
                    rows |-> OffsetLimit(ordered, (resp.page - 1) * resp.page_size,
                                         resp.page_size),
                    total |-> resp.total,
                    counted_on |-> resp.counted_on, selected_on |-> Visible]
    /\ UNCHANGED <<table, dialect>>

\* _sqlite_median_from_subquery, first statement: the non-NULL count; None is
\* returned at once when it is 0.
CountNonNull(queries) ==
    /\ resp = NoResp
    /\ ~_is_postgres_session(dialect)
    /\ \E f \in queries :
           LET non_null_count == Cardinality(NonNull(Selected(dialect, Visible, f)))
           IN  resp' = IF non_null_count = 0
                       THEN [op |-> "median", f |-> f, median_value |-> <<>>,
                             counted_on |-> Visible, selected_on |-> Visible]
                       ELSE [op |-> "median_count", f |-> f,
                             non_null_count |-> non_null_count,
                             counted_on |-> Visible]
    /\ UNCHANGED <<table, dialect>>

\* _sqlite_median_from_subquery, second statement: median_stmt or pair_stmt.
SelectMedian ==
    /\ resp.op = "median_count"
    /\ resp' = [op |-> "median", f |-> resp.f,
                median_value |-> median_selection(Selected(dialect, Visible, resp.f),
                                                  resp.non_null_count),
                counted_on |-> resp.counted_on, selected_on |-> Visible]
    /\ UNCHANGED <<table, dialect>>

\* ingest_workbook on a workbook file, into the empty store: the entities of
\* all sheets are committed together and (inserted, skipped) is returned.
\* before and parsers record the size of the table before the call and what
\* happened to each sheet.
IngestWorkbookFile(workbooks, versions) ==
    /\ resp = NoResp
    /\ table = <<>>
    /\ \E sheets \in workbooks, dataset_version \in versions :
           \E done \in {ingest_workbook(sheets, dataset_version, Len(table) + 1)} :
               /\ table' = table \o done.added
               /\ resp' = [op |-> "ingest", sheets |-> sheets,
                           dataset_version |-> dataset_version,
                           inserted |-> done.inserted, skipped |-> done.skipped,
                           parsers |-> done.parsers, before |-> Len(table)]
    /\ UNCHANGED dialect

\* The response is returned and the request's session is closed.
Close ==
    /\ resp /= NoResp
    /\ resp' = NoResp
    /\ UNCHANGED <<table, dialect>>

\* Street scenarios, on the default database (config.py: sqlite).
Init ==
    /\ table = <<>>
    /\ dialect = "sqlite"
    /\ resp = NoResp

Next ==
    \/ IngestWorkbook(StreetPayloads, {tV1}, MaxRows)
    \/ ListZonalValues(StreetQueries, 1..MaxPage, PageSizes)
    \/ GetZonalSummary(StreetQueries)
    \/ ExportZonalValues(StreetQueries)
    \/ Close

Spec == Init /\ [][Next]_vars

\* Search and filter scenarios, on either backend.
InitBackends ==
    /\ table = <<>>
    /\ dialect \in Dialects
    /\ resp = NoResp

NextSearch ==
    \/ IngestWorkbook(SearchPayloads, {tV1}, MaxRows)
    \/ ListZonalValues(SearchQueries, {1}, {MaxRows})
    \/ GetZonalSummary(SearchQueries)
    \/ Close

SpecSearch == InitBackends /\ [][NextSearch]_vars

\* The dialect names of the search scenarios on any backend: the two above
\* and one that crud.py does not name, a database that evaluates LIKE, CAST
\* and ORDER BY as SQLite does.
AnyDialects == Dialects \cup {"other"}

InitAnyBackend ==
    /\ table = <<>>
    /\ dialect \in AnyDialects
    /\ resp = NoResp

SpecAnyBackend == InitAnyBackend /\ [][NextSearch]_vars

\* Median scenarios, on either backend.
NextMedian ==
    \/ IngestWorkbook(MedianPayloads, {tV1}, MaxValues)
    \/ ListZonalValues(MedianQueries, {1}, {MaxValues})
    \/ GetZonalSummary(MedianQueries)
    \/ Close

SpecMedian == InitBackends /\ [][NextMedian]_vars

\* Class-mix scenarios, on the default database.
NextClassMix ==
    \/ IngestSheet(ClassSheets, {tV1}, MaxClassRows)
    \/ GetZonalSummary(ClassQueries)
    \/ Close

SpecClassMix == Init /\ [][NextClassMix]_vars

\* Paging scenarios: every page of small sizes, on either backend.
NextPaging ==
    \/ IngestWorkbook(StreetPayloads, {tV1}, MaxRows)
    \/ ListZonalValues(PagingQueries, 1..(MaxPage + 1), SmallPageSizes)
    \/ Close

SpecPaging == InitBackends /\ [][NextPaging]_vars

\* Sibling scenarios, on either backend.
NextSibling ==
    \/ IngestWorkbook(SiblingPayloads, {tV1}, MaxRows)
    \/ ListZonalValues(SiblingQueries, {1}, {MaxRows})
    \/ GetZonalSummary(SiblingQueries)
    \/ Close

SpecSibling == InitBackends /\ [][NextSibling]_vars

\* Calls whose statements are interleaved with commits of ingestion.
NextConcurrent ==
    \/ IngestCommit(ConcurrentPayloads, {tV1}, MaxRows)
    \/ CountZonalValues(ConcurrentQueries, 1..MaxPage, {2})
    \/ SelectZonalValues
    \/ CountNonNull(ConcurrentQueries)
    \/ SelectMedian
    \/ Close

SpecConcurrent == InitBackends /\ [][NextConcurrent]_vars

\* Workbook scenarios: ingestion of whole workbooks.
NextWorkbook ==
    \/ IngestWorkbookFile(Workbooks, WorkbookVersions)
    \/ Close

SpecWorkbook == Init /\ [][NextWorkbook]_vars

\* Every operation of the engine next to ingestion, on either backend.
NextEngine ==
    \/ IngestWorkbook(LocationPayloads, {tV1, tV10}, MaxRows)
    \/ ListZonalValues(VersionQueries, {1}, {MaxRows})
    \/ GetZonalSummary({NoFilters})
    \/ ExportZonalValues({NoFilters})
    \/ GetZonalValue(1..(MaxRows + 1))
    \/ GetFilterOptions
    \/ GetLocationChildren(LocationProvinces, LocationCities, {1, MaxRows})
    \/ Close

SpecEngine == InitBackends /\ [][NextEngine]_vars

\* Filter options of small tables and of the table with 501 regions.
NextFilterOptions ==
    \/ IngestWorkbook(LocationPayloads, {tV1, tV10}, MaxRows)
    \/ IngestSheet({ManyRegionsSheet}, {tV1}, MaxFilterRows)
    \/ GetFilterOptions
    \/ Close

SpecFilterOptions == Init /\ [][NextFilterOptions]_vars

----------------------------------------------------------------------------
(* Reference notions of the properties, stated on texts directly           *)

Max(a, b) == IF a > b THEN a ELSE b

\* The rows stored in table t.
Rows(t) == {t[i] : i \in 1..Len(t)}

\* needle occurs in hay as a run of consecutive characters.
Occurs(needle, hay) ==
    \E i \in 1..(Len(hay) - Len(needle) + 1) :
        SubSeq(hay, i, i + Len(needle) - 1) = needle

\* a precedes b in code point order.
TextBefore(a, b) ==
    \E k \in 1..Len(b) :
        /\ k <= Len(a) + 1
        /\ \A i \in 1..(k - 1) : a[i] = b[i]
        /\ (k = Len(a) + 1 \/ Ord[a[k]] < Ord[b[k]])

\* A street term is given and is not blank.
StreetGiven(f) == ~IsNull(f.street) /\ Strip(f.street) /= <<>>

\* The normalized (lowercased, trimmed) street term and street of a row.
QueryStreet(f) == Lower(Strip(f.street))
RowStreet(row) ==
    IF IsNull(row.street_subdivision) THEN <<>>
    ELSE Lower(Strip(row.street_subdivision))

AllOtherStreet ==
    <<"a", "l", "l", " ", "o", "t", "h", "e", "r", " ", "s", "t", "r", "e", "e", "t">>

IsCatchAll(row) == Occurs(AllOtherStreet, RowStreet(row))
IsExact(row, f) == RowStreet(row) = QueryStreet(f)
IsNamed(row, f) == Occurs(QueryStreet(f), RowStreet(row)) /\ ~IsCatchAll(row)

\* Same province, city, barangay, class and dataset version, NULL equal to NULL.
SameScope(a, b) ==
    /\ a.province = b.province
    /\ a.city_municipality = b.city_municipality
    /\ a.barangay = b.barangay
    /\ a.property_class = b.property_class
    /\ a.dataset_version = b.dataset_version

HasNamedSibling(t, row, f) ==
    \E peer \in Rows(t) : SameScope(peer, row) /\ IsNamed(peer, f)

\* 0 exact, else 1 named, else 2.
StreetRank(row, f) ==
    IF IsExact(row, f) THEN 0 ELSE IF IsNamed(row, f) THEN 1 ELSE 2

\* The row satisfies the filters of the call other than the street term.
OtherFilters(row, f) ==
    _apply_conditions(dialect, table, row, [f EXCEPT !.street = NULL])

\* The response carries rows (a list page or an export that was served).
HasRows ==
    \/ resp.op = "list"
    \/ resp.op = "export" /\ resp.status = 200

\* The response's rows are the whole result of the call.
Complete ==
    \/ resp.op = "list" /\ resp.page = 1 /\ resp.total <= resp.page_size
    \/ resp.op = "export" /\ resp.status = 200 /\ resp.total <= resp.limit

Returned(row) == \E i \in 1..Len(resp.rows) : resp.rows[i] = row

----------------------------------------------------------------------------
(* Properties                                                              *)

\* C1: a list response's total is the number of rows matching the predicate,
\* whatever the page, and it carries exactly
\* min(page_size, max(0, total - (page - 1) * page_size)) rows.
C1_PageLength ==
    resp.op = "list" =>
        /\ resp.total =
               Cardinality({row \in Rows(table) :
                               _apply_conditions(dialect, table, row, resp.f)})
        /\ Len(resp.rows) =
               Min(resp.page_size,
                   Max(0, resp.total - (resp.page - 1) * resp.page_size))

\* A second page that is partly filled, and a page past the result set.
C1_Witness ==
    /\ resp.op = "list"
    /\ resp.page = 2
    /\ resp.total = 3
    /\ Len(resp.rows) = 1

C1_WitnessBeyond ==
    /\ resp.op = "list"
    /\ resp.total > 0
    /\ (resp.page - 1) * resp.page_size >= resp.total
    /\ resp.rows = <<>>

\* C2: for a street term, a catch-all row that is not an exact match and
\* passes the other filters is returned (at rank 2) exactly when no row of
\* its scope has a street that contains the term and is not a catch-all.
C2_CatchAllFallback ==
    (HasRows /\ Complete /\ StreetGiven(resp.f)) =>
        \A row \in Rows(table) :
            (OtherFilters(row, resp.f) /\ IsCatchAll(row) /\ ~IsExact(row, resp.f)) =>
                /\ Returned(row) <=> ~HasNamedSibling(table, row, resp.f)
                /\ Returned(row) => rank_expression(table, row, resp.f.street) = 2

\* One catch-all row is suppressed by a named sibling while another, of a
\* scope without one, is returned.
C2_Witness ==
    /\ HasRows /\ Complete /\ StreetGiven(resp.f)
    /\ \E row \in Rows(table) :
           /\ IsCatchAll(row) /\ ~Returned(row) /\ OtherFilters(row, resp.f)
           /\ HasNamedSibling(table, row, resp.f)
    /\ \E row \in Rows(table) :
           IsCatchAll(row) /\ ~IsExact(row, resp.f) /\ Returned(row)

\* C3: for a street term the returned rows are in street-rank order: exact
\* rows, then named rows, then catch-all fallback rows.
C3_RankOrder ==
    (HasRows /\ StreetGiven(resp.f)) =>
        \A i, j \in 1..Len(resp.rows) :
            i < j => StreetRank(resp.rows[i], resp.f) <= StreetRank(resp.rows[j], resp.f)

\* A row of better rank comes first although its region (NULL) sorts last.
C3_Witness ==
    /\ HasRows /\ StreetGiven(resp.f)
    /\ Len(resp.rows) >= 2
    /\ StreetRank(resp.rows[1], resp.f) < StreetRank(resp.rows[2], resp.f)
    /\ IsNull(resp.rows[1].region) /\ ~IsNull(resp.rows[2].region)

\* C4: for a street term, a row passing the other filters is in the result
\* of list, summary and export exactly when it is an exact match, a named
\* match or a catch-all without named sibling; no returned row has rank 3.
\* The export result is that of get_zonal_values_for_export on the table of
\* the summary.
C4_InclusionIsOr ==
    LET included(row) ==
            \/ IsExact(row, resp.f)
            \/ IsNamed(row, resp.f)
            \/ (IsCatchAll(row) /\ ~HasNamedSibling(table, row, resp.f))
        expected == {row \in Rows(table) : OtherFilters(row, resp.f) /\ included(row)}
    IN  /\ (HasRows /\ StreetGiven(resp.f)) =>
               /\ resp.total = Cardinality(expected)
               /\ \A i \in 1..Len(resp.rows) :
                      /\ resp.rows[i] \in expected
                      /\ rank_expression(table, resp.rows[i], resp.f.street) < 3
               /\ Complete => \A row \in expected : Returned(row)
        /\ (resp.op = "summary" /\ StreetGiven(resp.f)) =>
               /\ resp.summary.total_records = Cardinality(expected)
               /\ \A out \in get_zonal_values_for_export(dialect, table, resp.f,
                                                          MaxRows) :
                      /\ out.total = Cardinality(expected)
                      /\ {out.rows[i] : i \in 1..Len(out.rows)} = expected

\* A street call that returns some rows of the table and leaves out others
\* that pass the other filters.
C4_Witness ==
    /\ HasRows /\ Complete /\ StreetGiven(resp.f)
    /\ resp.rows /= <<>>
    /\ \E row \in Rows(table) : OtherFilters(row, resp.f) /\ ~Returned(row)

----------------------------------------------------------------------------
(* Reference order of the result rows                                      *)

\* Ascending with NULL last: a strictly before b.
NullsLastBefore(a, b) ==
    ~IsNull(a) /\ (IsNull(b) \/ TextBefore(a, b))

\* a strictly before b on the columns from the k-th on, then on the id.
RECURSIVE ColumnsBefore(_, _, _)
ColumnsBefore(a, b, k) ==
    LET ca == <<a.region, a.province, a.city_municipality, a.barangay,
                a.property_class, a.street_subdivision>>
        cb == <<b.region, b.province, b.city_municipality, b.barangay,
                b.property_class, b.street_subdivision>>
    IN  IF k > Len(ca) THEN a.id < b.id
        ELSE \/ NullsLastBefore(ca[k], cb[k])
             \/ (ca[k] = cb[k] /\ ColumnsBefore(a, b, k + 1))

\* The total order of the results: street rank if a street term is given,
\* then the six columns, then the id.
RowBefore(a, b, f) ==
    IF StreetGiven(f) /\ StreetRank(a, f) /= StreetRank(b, f)
    THEN StreetRank(a, f) < StreetRank(b, f)
    ELSE ColumnsBefore(a, b, 1)

\* C5: the returned rows are strictly ascending in the total order, and the
\* call has no other possible result: repeating it on the unchanged table
\* returns the same rows in the same order.
C5_TotalOrder ==
    resp.op = "list" =>
        /\ \A i, j \in 1..Len(resp.rows) :
               i < j => RowBefore(resp.rows[i], resp.rows[j], resp.f)
        /\ get_zonal_values(dialect, table, resp.f, resp.page, resp.page_size)
               = {[rows |-> resp.rows, total |-> resp.total]}

\* Two returned rows agree on every sort column and differ only in the id.
C5_Witness ==
    /\ resp.op = "list"
    /\ Len(resp.rows) >= 2
    /\ [resp.rows[1] EXCEPT !.id = 0] = [resp.rows[2] EXCEPT !.id = 0]

\* C6: the summary's total_records equals the total the list call returns
\* for the same filters on the same table.
C6_SummaryTotal ==
    resp.op = "summary" =>
        \A out \in get_zonal_values(dialect, table, resp.f, 1, MaxRows) :
            out.total = resp.summary.total_records

\* A summary under a street term that selects some but not all rows.
C6_Witness ==
    /\ resp.op = "summary"
    /\ StreetGiven(resp.f)
    /\ resp.summary.total_records > 0
    /\ resp.summary.total_records < Len(table)

----------------------------------------------------------------------------
(* Filters and search                                                      *)

TextFilters ==
    {"search", "region", "province", "city", "barangay", "property_class",
     "property_type", "dataset_version"}

\* A text filter value that is given and empty after trimming.
IsBlank(v) == ~IsNull(v) /\ Strip(v) = <<>>

\* The filters with every blank text filter taken as not passed.
WithoutBlanks(f) ==
    [k \in DOMAIN f |-> IF k \in TextFilters /\ IsBlank(f[k]) THEN NULL ELSE f[k]]

\* C7: a text filter that is empty after trimming adds no predicate: the
\* result is the one obtained without that filter, rows with a NULL column
\* included.
C7_BlankFilterIsNoFilter ==
    (resp.op = "list" /\ Complete) =>
        {resp.rows[i] : i \in 1..Len(resp.rows)}
            = Selected(dialect, table, WithoutBlanks(resp.f))

\* The term has a LIKE metacharacter.
HasWildcard(term) == \E i \in 1..Len(term) : term[i] \in {"%", "_"}

\* The texts the search looks at, for one row.
SearchableTexts(row) ==
    { v \in { row.rdo_code, row.region, row.province, row.city_municipality,
              row.barangay, row.street_subdivision, row.property_class,
              row.property_type, row.dataset_version,
              DecimalText(row.zonal_value) } : ~IsNull(v) }

\* C8: a search term with % or _ is matched literally: every returned row
\* has a searchable field that contains the term itself.
C8_LiteralWildcards ==
    (resp.op = "list" /\ ~IsNull(resp.f.search) /\ HasWildcard(resp.f.search)) =>
        \A i \in 1..Len(resp.rows) :
            \E v \in SearchableTexts(resp.rows[i]) :
                Occurs(Lower(Strip(resp.f.search)), Lower(v))

\* C10: for the same table and search term the PostgreSQL predicate and the
\* substring predicate select the same rows.
C10_SameRowsOnBothBackends ==
    (resp.op = "list" /\ ~IsNull(resp.f.search)) =>
        \A db \in Dialects :
            Selected(db, table, resp.f) = Selected(dialect, table, resp.f)

----------------------------------------------------------------------------
(* Median                                                                  *)

\* The element at 0-indexed offset k of the ascending order of the values of
\* the rows S.
ElementAt(S, k) ==
    CHOOSE v \in {r.zonal_value[1] : r \in S} :
        /\ Cardinality({r \in S : r.zonal_value[1] < v}) <= k
        /\ k < Cardinality({r \in S : r.zonal_value[1] <= v})

\* C9: on a backend other than PostgreSQL the median over the N non-NULL
\* values of the filtered rows is None for N = 0, the element at offset
\* N \div 2 for odd N, and the exact mean of the elements at offsets N/2 - 1
\* and N/2 for even N.
C9_SqliteMedian ==
    (resp.op = "summary" /\ dialect /= "postgresql") =>
        LET S == {row \in Rows(table) :
                     /\ _apply_conditions(dialect, table, row, resp.f)
                     /\ row.zonal_value /= <<>>}
            N == Cardinality(S)
            median == resp.summary.median_value
        IN  IF N = 0 THEN median = <<>>
            ELSE /\ median /= <<>>
                 /\ IF N % 2 = 1
                    THEN median[1].num = ElementAt(S, N \div 2) * median[1].den
                    ELSE 2 * median[1].num =
                             (ElementAt(S, (N \div 2) - 1) + ElementAt(S, N \div 2))
                             * median[1].den

\* {10, 20, 30, 40} gives 25.00.
C9_Witness ==
    /\ resp.op = "summary" /\ dialect = "sqlite"
    /\ {table[i].zonal_value : i \in 1..Len(table)}
           = {<<1000>>, <<2000>>, <<3000>>, <<4000>>}
    /\ resp.f = NoFilters
    /\ resp.summary.median_value = <<Fraction(5000, 2)>>

\* {10, 20, 30} gives 20.00.
C9_WitnessOdd ==
    /\ resp.op = "summary" /\ dialect = "sqlite"
    /\ {table[i].zonal_value : i \in 1..Len(table)} = {<<1000>>, <<2000>>, <<3000>>}
    /\ Len(table) = 3
    /\ resp.f = NoFilters
    /\ resp.summary.median_value = <<Fraction(2000, 1)>>

\* No non-NULL value: None.
C9_WitnessNone ==
    /\ resp.op = "summary" /\ dialect = "sqlite"
    /\ Len(table) > 0
    /\ resp.summary.median_value = <<>>

----------------------------------------------------------------------------
(* Summary counts                                                          *)

\* C11: catch_all_records counts every row that passes the filters other
\* than the street term and whose street is a catch-all marker, so a street
\* term never lowers it.
C11_CatchAllIgnoresStreet ==
    resp.op = "summary" =>
        resp.summary.catch_all_records =
            Cardinality({row \in Rows(table) :
                            OtherFilters(row, resp.f) /\ IsCatchAll(row)})

\* C12: exact_street_records is the number of rows that satisfy the whole
\* predicate and whose normalized street equals the normalized street term;
\* it is 0 when no street term, or a blank one, is given.
C12_ExactStreetRecords ==
    resp.op = "summary" =>
        resp.summary.exact_street_records =
            IF StreetGiven(resp.f)
            THEN Cardinality({row \in Rows(table) :
                                 /\ _apply_conditions(dialect, table, row, resp.f)
                                 /\ IsExact(row, resp.f)})
            ELSE 0

\* A street term selects an exact row together with a row that only contains
\* the term: one exact record among several.
C12_Witness ==
    /\ resp.op = "summary"
    /\ StreetGiven(resp.f)
    /\ resp.summary.exact_street_records = 1
    /\ resp.summary.total_records >= 2

\* No street term, on a table that holds a catch-all street: 0.
C12_WitnessNoStreet ==
    /\ resp.op = "summary"
    /\ IsNull(resp.f.street)
    /\ resp.summary.catch_all_records > 0
    /\ resp.summary.exact_street_records = 0

\* Street terms that are empty after trimming.
BlankStreets == {<<>>, tBlank, <<"\t", " ">>}

\* C13: an empty or whitespace-only street term disables the street
\* resolver: list, summary and export give the rows, order and totals they
\* give when no street is passed, and exact_street_records is 0.
C13_BlankStreetDisabled ==
    (resp.op \in {"list", "summary"} /\ resp.f.street \in BlankStreets \cup {NULL}) =>
        \A s \in BlankStreets \cup {NULL} :
            LET f == [resp.f EXCEPT !.street = s]
            IN  /\ resp.op = "list" =>
                       get_zonal_values(dialect, table, f, resp.page, resp.page_size)
                           = {[rows |-> resp.rows, total |-> resp.total]}
                /\ resp.op = "summary" =>
                       /\ get_zonal_summary(dialect, table, f) = resp.summary
                       /\ resp.summary.exact_street_records = 0
                       /\ \A limit \in {1, MaxRows} :
                              get_zonal_values_for_export(dialect, table, f, limit)
                                  = get_zonal_values_for_export(dialect, table,
                                                                resp.f, limit)

\* A blank street term on a table with a catch-all row and a named row of
\* its scope: all rows are returned, the catch-all one included.
C13_Witness ==
    /\ resp.op = "list"
    /\ resp.f.street = tBlank
    /\ resp.total = Len(table)
    /\ \E row \in Rows(table) :
           /\ IsCatchAll(row) /\ Returned(row)
           /\ \E peer \in Rows(table) : SameScope(peer, row) /\ ~IsCatchAll(peer)

\* The label a row is grouped under.
ClassLabel(row) ==
    IF IsNull(row.property_class)
    THEN <<"U", "n", "s", "p", "e", "c", "i", "f", "i", "e", "d">>
    ELSE row.property_class

\* C14: class_mix lists at most 8 (label, count) pairs, each count being the
\* number of filtered rows under that label (rows without class under
\* "Unspecified"), in the order count descending then label ascending, and
\* every group left out comes after all listed ones in that order.
C14_ClassMix ==
    resp.op = "summary" =>
        LET S == {row \in Rows(table) :
                     _apply_conditions(dialect, table, row, resp.f)}
            labels == {ClassLabel(row) : row \in S}
            count(l) == Cardinality({row \in S : ClassLabel(row) = l})
            before(a, b) ==
                \/ count(a) > count(b)
                \/ (count(a) = count(b) /\ TextBefore(a, b))
            mix == resp.summary.class_mix
            listed == {mix[i].property_class : i \in 1..Len(mix)}
        IN  /\ Len(mix) = Min(8, Cardinality(labels))
            /\ \A i \in 1..Len(mix) :
                   /\ mix[i].property_class \in labels
                   /\ mix[i].count = count(mix[i].property_class)
            /\ \A i, j \in 1..Len(mix) :
                   i < j => before(mix[i].property_class, mix[j].property_class)
            /\ \A l \in labels \ listed : \A m \in listed : before(m, l)

\* Ten groups: A and Unspecified with two rows each lead, six of the
\* single-row classes follow in label order, and two groups are cut.
C14_Witness ==
    /\ resp.op = "summary"
    /\ Cardinality({ClassLabel(row) : row \in Rows(table)}) = 10
    /\ resp.f = NoFilters
    /\ Len(resp.summary.class_mix) = 8
    /\ resp.summary.class_mix[1] = [property_class |-> <<"A">>, count |-> 2]
    /\ resp.summary.class_mix[2].property_class = ClassLabel(EmptyPayload)
    /\ resp.summary.class_mix[2].count = 2
    /\ resp.summary.class_mix[8].property_class = <<"G">>

\* C15: a summary over filters that no row satisfies is fully defined:
\* total 0, no minimum, maximum or median, both street counts 0 and an empty
\* class_mix.
C15_EmptySummary ==
    (resp.op = "summary" /\ Selected(dialect, table, resp.f) = {}) =>
        resp.summary = [ total_records |-> 0,
                         min_value |-> <<>>,
                         max_value |-> <<>>,
                         median_value |-> <<>>,
                         catch_all_records |-> 0,
                         exact_street_records |-> 0,
                         class_mix |-> <<>> ]

\* On PostgreSQL, a value range that excludes every row of a table that has
\* rows.
C15_Witness ==
    /\ resp.op = "summary" /\ dialect = "postgresql"
    /\ Len(table) > 0
    /\ resp.f.min_value /= <<>>
    /\ resp.summary.total_records = 0

\* On SQLite, a street term that no row matches.
C15_WitnessStreet ==
    /\ resp.op = "summary" /\ dialect = "sqlite"
    /\ Len(table) > 0
    /\ StreetGiven(resp.f)
    /\ resp.summary.total_records = 0

\* C20: min_value and max_value are the least and the greatest non-NULL
\* zonal_value of the filtered rows, and both are null when no filtered row
\* has a value, whatever total_records is.
C20_MinMax ==
    resp.op = "summary" =>
        LET V == {row.zonal_value[1] :
                     row \in {r \in Rows(table) :
                                 /\ _apply_conditions(dialect, table, r, resp.f)
                                 /\ r.zonal_value /= <<>>}}
        IN  IF V = {}
            THEN resp.summary.min_value = <<>> /\ resp.summary.max_value = <<>>
            ELSE /\ resp.summary.min_value /= <<>>
                 /\ resp.summary.max_value /= <<>>
                 /\ resp.summary.min_value[1] \in V
                 /\ resp.summary.max_value[1] \in V
                 /\ \A v \in V : /\ resp.summary.min_value[1] <= v
                                  /\ v <= resp.summary.max_value[1]

\* Rows with and without value: the extremes differ and skip the NULL.
C20_Witness ==
    /\ resp.op = "summary"
    /\ resp.summary.total_records = 3
    /\ \E i \in 1..Len(table) : table[i].zonal_value = <<>>
    /\ resp.summary.min_value = <<1000>>
    /\ resp.summary.max_value = <<4000>>

\* Only rows without value: total_records > 0 and both extremes null.
C20_WitnessNoValue ==
    /\ resp.op = "summary"
    /\ resp.summary.total_records > 0
    /\ resp.summary.min_value = <<>>
    /\ resp.summary.max_value = <<>>

----------------------------------------------------------------------------
(* Export                                                                  *)

\* C16: an export request is served with the first min(limit, total) rows of
\* the list ordering of the same filters, the uncapped number of matching
\* rows as total, and the truncation metadata exactly when total > limit.
C16_ExportTruncation ==
    resp.op = "export" =>
        /\ resp.status = 200
        /\ resp.total = Cardinality(Selected(dialect, table, resp.f))
        /\ Len(resp.rows) = Min(resp.limit, resp.total)
        /\ \E out \in get_zonal_values(dialect, table, resp.f, 1, resp.limit) :
               out.rows = resp.rows
        /\ resp.truncated <=> resp.total > resp.limit

----------------------------------------------------------------------------
(* Case and whitespace of filter values                                    *)

\* The same filter value in other letter case and with whitespace around it.
Variants(v) ==
    { v, Lower(v), Upper(v),
      <<" ">> \o Upper(v) \o <<" ">>,
      <<"\t">> \o Lower(v) \o <<" ", " ">> }

SubstringFilters ==
    {"region", "province", "city", "barangay", "property_class", "property_type"}

\* Values found in the rows of the search scenarios.
FilterTerms == {tNCR, tCebu, tRES}

\* C17: a substring filter does not depend on the letter case of its value
\* nor on whitespace around it: the list response to a filter value is the
\* response to each of its variants, and on every table listed the variants
\* of a value select the same rows, for each of the six substring filters.
C17_CaseWhitespaceInsensitive ==
    resp.op = "list" =>
        /\ \A k \in SubstringFilters :
               (~IsNull(resp.f[k]) /\ Strip(resp.f[k]) /= <<>>) =>
                   \A w \in Variants(Strip(resp.f[k])) :
                       get_zonal_values(dialect, table, [resp.f EXCEPT ![k] = w],
                                        resp.page, resp.page_size)
                           = {[rows |-> resp.rows, total |-> resp.total]}
        /\ resp.f = NoFilters =>
               \A k \in SubstringFilters, v \in FilterTerms :
                   \A w \in Variants(v) :
                       Selected(dialect, table, [NoFilters EXCEPT ![k] = w])
                           = Selected(dialect, table, [NoFilters EXCEPT ![k] = v])

\* region=" ncr " returns the rows whose region is "NCR" and leaves out
\* another row.
C17_Witness ==
    /\ resp.op = "list"
    /\ resp.f.region = tNcrPadded
    /\ resp.total >= 1
    /\ resp.total < Len(table)
    /\ \A i \in 1..Len(resp.rows) : resp.rows[i].region = tNCR

----------------------------------------------------------------------------
(* Value range                                                             *)

\* The row has a value within the bounds that are given.
InRange(row, f) ==
    /\ f.min_value /= <<>> =>
           row.zonal_value /= <<>> /\ row.zonal_value[1] >= f.min_value[1]
    /\ f.max_value /= <<>> =>
           row.zonal_value /= <<>> /\ row.zonal_value[1] <= f.max_value[1]

\* C18: the value range is inclusive at both ends and each bound works
\* alone: the rows returned are the rows passing the other filters whose
\* value is within the given bounds, a value equal to a bound included, and
\* a lower bound above the upper one gives no row and total 0.
C18_InclusiveRange ==
    (resp.op = "list" /\ Complete) =>
        LET NoRange == [resp.f EXCEPT !.min_value = <<>>, !.max_value = <<>>]
        IN  /\ \A i \in 1..Len(resp.rows) : InRange(resp.rows[i], resp.f)
            /\ \A row \in Rows(table) :
                   (_apply_conditions(dialect, table, row, NoRange)
                        /\ InRange(row, resp.f)) => Returned(row)
            /\ resp.total = Len(resp.rows)
            /\ (/\ resp.f.min_value /= <<>>
                /\ resp.f.max_value /= <<>>
                /\ resp.f.min_value[1] > resp.f.max_value[1]) =>
                   resp.rows = <<>> /\ resp.total = 0

\* A lower bound alone: the row whose value equals it is returned, a row
\* below it is not.
C18_Witness ==
    /\ resp.op = "list"
    /\ resp.f.min_value /= <<>> /\ resp.f.max_value = <<>>
    /\ \E i \in 1..Len(resp.rows) : resp.rows[i].zonal_value = resp.f.min_value
    /\ \E row \in Rows(table) :
           /\ row.zonal_value /= <<>>
           /\ row.zonal_value[1] < resp.f.min_value[1]
           /\ ~Returned(row)

\* An upper bound alone, with a row at the bound and a row without value.
C18_WitnessMax ==
    /\ resp.op = "list"
    /\ resp.f.min_value = <<>> /\ resp.f.max_value /= <<>>
    /\ \E i \in 1..Len(resp.rows) : resp.rows[i].zonal_value = resp.f.max_value
    /\ \E row \in Rows(table) : row.zonal_value = <<>> /\ ~Returned(row)

\* A lower bound above the upper one on a table with rows between and around.
C18_WitnessCrossed ==
    /\ resp.op = "list"
    /\ resp.f.min_value /= <<>> /\ resp.f.max_value /= <<>>
    /\ resp.f.min_value[1] > resp.f.max_value[1]
    /\ Len(table) >= 2
    /\ resp.total = 0

----------------------------------------------------------------------------
(* Dialects other than PostgreSQL                                          *)

\* C19: on every dialect other than "postgresql", named by the code or not,
\* list and summary answer as on SQLite: a search term selects the rows with
\* a searchable field that contains it (terms without % and _), never the
\* rows that only the full-text match would give, and the median is the
\* rank-based one.  The response is always a result, never an error.
C19_FailClosed ==
    (dialect /= "postgresql" /\ resp.op \in {"list", "summary"}) =>
        /\ resp.op = "list" =>
               /\ [rows |-> resp.rows, total |-> resp.total]
                      \in get_zonal_values("sqlite", table, resp.f,
                                           resp.page, resp.page_size)
               /\ (/\ ~IsNull(resp.f.search)
                   /\ Strip(resp.f.search) /= <<>>
                   /\ ~HasWildcard(resp.f.search)) =>
                      {resp.rows[i] : i \in 1..Len(resp.rows)} =
                          {row \in Rows(table) :
                              \E v \in SearchableTexts(row) :
                                  Occurs(Lower(Strip(resp.f.search)), Lower(v))}
        /\ resp.op = "summary" =>
               /\ resp.summary = get_zonal_summary("sqlite", table, resp.f)
               /\ resp.summary.median_value =
                      _sqlite_median_from_subquery(Selected("sqlite", table, resp.f))

\* On the unnamed dialect, a search whose words are spread over two columns
\* of a row returns nothing, although the full-text match would return the
\* row.
C19_Witness ==
    /\ dialect = "other"
    /\ resp.op = "list"
    /\ resp.f.search = tNcrCebu
    /\ resp.total = 0
    /\ Selected("postgresql", table, resp.f) /= {}

\* On the unnamed dialect, the median of three values.
C19_WitnessMedian ==
    /\ dialect = "other"
    /\ resp.op = "summary"
    /\ resp.summary.total_records = 3
    /\ resp.summary.median_value = <<Fraction(2000, 1)>>

----------------------------------------------------------------------------
(* Lookups                                                                 *)

\* The non-NULL values of a column of the table.
ColumnValues(column) == {table[i][column] : i \in 1..Len(table)} \ {NULL}

\* C21: each list of get_filter_options holds values of its column only, no
\* null and no empty text, at most 500 entries, in strictly ascending code
\* point order (so without duplicates), and all values of the column when
\* there are at most 500.
C21_FilterOptions ==
    resp.op = "filters" =>
        LET lists == << <<resp.options.regions, "region">>,
                        <<resp.options.provinces, "province">>,
                        <<resp.options.cities, "city_municipality">>,
                        <<resp.options.barangays, "barangay">>,
                        <<resp.options.property_classes, "property_class">>,
                        <<resp.options.property_types, "property_type">>,
                        <<resp.options.dataset_versions, "dataset_version">> >>
        IN  \A k \in 1..Len(lists) :
                LET list == lists[k][1]
                    values == ColumnValues(lists[k][2])
                IN  /\ Len(list) <= 500
                    /\ \A i \in 1..Len(list) :
                           /\ list[i] \in values
                           /\ list[i] /= <<>>
                    /\ \A i \in 1..(Len(list) - 1) : TextBefore(list[i], list[i + 1])
                    /\ Cardinality(values) <= 500 =>
                           values \ {<<>>} = {list[i] : i \in 1..Len(list)}

\* 501 regions: the list is cut at 500 entries.
C21_Witness ==
    /\ resp.op = "filters"
    /\ Cardinality(ColumnValues("region")) = 501
    /\ Len(resp.options.regions) = 500

\* A small table with a repeated city: the city is listed once, before the
\* other one.
C21_WitnessDistinct ==
    /\ resp.op = "filters"
    /\ Len(table) = 3
    /\ resp.options.cities = <<tCebuCity, tMandaue>>
    /\ resp.options.dataset_versions = <<tV1, tV10>>

\* The row has a value in the column that contains the trimmed term, letter
\* case ignored.
ColumnContains(row, column, term) ==
    /\ ~IsNull(row[column])
    /\ Occurs(Lower(Strip(term)), Lower(row[column]))

\* The entries of a list.
Entries(list) == {list[i] : i \in 1..Len(list)}

\* The non-empty values of a column over a set of rows.
ValuesOf(rows, column) == {row[column] : row \in rows} \ {NULL, <<>>}

\* A city term is given and is not blank.
CityGiven == ~IsNull(resp.city) /\ Strip(resp.city) /= <<>>

C22_WitnessNoCity ==
    /\ resp.op = "location_children"
    /\ resp.city \in {NULL, tBlank}
    /\ resp.children.cities /= <<>>
    /\ resp.children.barangays = <<>>
    /\ \E row \in Rows(table) :
           /\ ColumnContains(row, "province", resp.province)
           /\ ~IsNull(row.barangay)

\* The limit cuts the list of cities.
C22_WitnessLimit ==
    /\ resp.op = "location_children"
    /\ resp.limit = 1
    /\ Len(resp.children.cities) = 1
    /\ \E row \in Rows(table) :
           /\ ColumnContains(row, "province", resp.province)
           /\ row.city_municipality \notin {NULL, resp.children.cities[1]}

\* A blank province gives two empty lists on a table with cities.
C22_WitnessBlankProvince ==
    /\ resp.op = "location_children"
    /\ resp.province = tBlank
    /\ resp.children = [cities |-> <<>>, barangays |-> <<>>]
    /\ \E row \in Rows(table) : ~IsNull(row.city_municipality)

----------------------------------------------------------------------------
(* Exact dataset_version, read-only operations                             *)

\* C23: with a dataset_version filter the call returns exactly the rows whose
\* dataset_version equals the trimmed filter value in full; a row whose
\* version only contains the value is not selected.
C23_ExactDatasetVersion ==
    (resp.op = "list" /\ Truthy(resp.f.dataset_version)) =>
        LET equal == {row \in Rows(table) :
                         row.dataset_version = Strip(resp.f.dataset_version)}
        IN  /\ Entries(resp.rows) = equal
            /\ resp.total = Cardinality(equal)

\* The filter " v1 " returns the row of version v1 and not the row of v10.
C23_Witness ==
    /\ resp.op = "list"
    /\ resp.f.dataset_version = tV1padded
    /\ resp.total = 1
    /\ \E row \in Rows(table) : row.dataset_version = tV10

\* The filter "v", a proper substring of every stored version, returns
\* nothing.
C23_WitnessSubstring ==
    /\ resp.op = "list"
    /\ resp.f.dataset_version = <<"v">>
    /\ table /= <<>>
    /\ resp.total = 0

\* C24: a step in which an engine operation (list, summary, export,
\* get_by_id, filter_options, location_children) produces its response
\* leaves the stored records as they were; only ingestion changes the table.
C24_ReadOnly == [][resp' /= resp => table' = table]_vars

\* The lookup by id has answered with a row of a full table.
C24_Witness ==
    /\ resp.op = "get"
    /\ resp.status = 200
    /\ Len(table) = MaxRows

----------------------------------------------------------------------------
(* Pages, named siblings over the whole table                              *)

\* C25: on one table, page k of get_zonal_values for given filters and
\* page_size is the k-th slice of the sequence an export with a limit of at
\* least total returns, and that sequence holds every matching row exactly
\* once: the pages put together are the matching set, nothing twice and
\* nothing skipped.
C25_PagesPartition ==
    resp.op = "list" =>
        \A export \in get_zonal_values_for_export(dialect, table, resp.f,
                                                   Len(table) + 1) :
            LET offset == (resp.page - 1) * resp.page_size
            IN  /\ export.total = resp.total
                /\ Len(export.rows) = resp.total
                /\ Entries(export.rows) = Selected(dialect, table, resp.f)
                /\ Cardinality(Entries(export.rows)) = Len(export.rows)
                /\ resp.rows = SubSeq(export.rows, offset + 1,
                                      Min(resp.total, offset + resp.page_size))

\* The second page of size 2 over three matching rows of different street
\* ranks holds the last one.
C25_Witness ==
    /\ resp.op = "list"
    /\ resp.f.street = tMAINpadded
    /\ resp.page = 2
    /\ resp.page_size = 2
    /\ resp.total = 3
    /\ Len(resp.rows) = 1

\* The third page of size 1.
C25_WitnessThird ==
    /\ resp.op = "list"
    /\ resp.page = 3
    /\ resp.page_size = 1
    /\ resp.total = 3
    /\ Len(resp.rows) = 1

\* C26: a catch-all row (not equal to the query itself) is not returned
\* whenever some row of the whole table has its scope and a named street
\* containing the query, whether or not that row passes the other filters of
\* the call; the summary does not count it either.
C26_SiblingOverWholeTable ==
    /\ (resp.op = "list" /\ StreetGiven(resp.f)) =>
           \A row \in Rows(table) :
               (IsCatchAll(row) /\ ~IsExact(row, resp.f)
                    /\ HasNamedSibling(table, row, resp.f)) => ~Returned(row)
    /\ (resp.op = "summary" /\ StreetGiven(resp.f)) =>
           resp.summary.total_records =
               Cardinality({row \in Rows(table) :
                   /\ OtherFilters(row, resp.f)
                   /\ \/ IsExact(row, resp.f)
                      \/ IsNamed(row, resp.f)
                      \/ IsCatchAll(row) /\ ~HasNamedSibling(table, row, resp.f)})

\* The call has a street term and another filter; a catch-all row passes the
\* other filter and its only named siblings fail it.
SuppressedByFilteredSibling ==
    /\ StreetGiven(resp.f)
    /\ \E row \in Rows(table) :
           /\ IsCatchAll(row)
           /\ OtherFilters(row, resp.f)
           /\ HasNamedSibling(table, row, resp.f)
           /\ \A peer \in Rows(table) :
                  (SameScope(peer, row) /\ IsNamed(peer, resp.f)) =>
                      ~OtherFilters(peer, resp.f)

\* With a region filter the call returns no row although a catch-all row
\* passes the region filter: its named sibling is of another region.
C26_Witness ==
    /\ resp.op = "list"
    /\ resp.f.region = tNCR
    /\ SuppressedByFilteredSibling
    /\ resp.total = 0
    /\ resp.rows = <<>>

\* The same with a value bound and with a search term.
C26_WitnessMaxValue ==
    /\ resp.op = "list"
    /\ resp.f.max_value = <<2000>>
    /\ SuppressedByFilteredSibling
    /\ resp.total = 0

C26_WitnessSearch ==
    /\ resp.op = "list"
    /\ resp.f.search = tNCR
    /\ SuppressedByFilteredSibling
    /\ resp.total = 0

----------------------------------------------------------------------------
(* Ingestion committing during a call                                      *)

\* C27: the count statement and the row statement of one get_zonal_values
\* call see the same records also when ingestion commits between them, so
\* total is the number of rows matching in what the row statement read and
\* len(rows) = min(page_size, max(0, total - offset)).
C27_CountAndRowsAgree ==
    (resp.op = "list" /\ "selected_on" \in DOMAIN resp) =>
        LET offset == (resp.page - 1) * resp.page_size
        IN  /\ resp.total = Cardinality(Selected(dialect, resp.selected_on, resp.f))
            /\ Len(resp.rows) = Min(resp.page_size, Max(0, resp.total - offset))

\* The value is the exact median of the non-NULL values of the rows of t that
\* match f (None when there is none).
IsMedianOf(median, t, f) ==
    LET S == NonNull(Selected(dialect, t, f))
        N == Cardinality(S)
    IN  IF N = 0 THEN median = <<>>
        ELSE /\ median /= <<>>
             /\ IF N % 2 = 1
                THEN median[1].num = ElementAt(S, N \div 2) * median[1].den
                ELSE 2 * median[1].num =
                         (ElementAt(S, (N \div 2) - 1) + ElementAt(S, N \div 2))
                         * median[1].den

\* C28: when ingestion commits between the count statement and the selection
\* statement of _sqlite_median_from_subquery, the value returned is still
\* the exact median of one table state: the one the count saw or the one the
\* selection saw.
C28_MedianOfOneState ==
    resp.op = "median" =>
        \/ IsMedianOf(resp.median_value, resp.counted_on, resp.f)
        \/ IsMedianOf(resp.median_value, resp.selected_on, resp.f)

----------------------------------------------------------------------------
(* Rows without value                                                      *)

\* A value bound is given.
HasBound(f) == f.min_value /= <<>> \/ f.max_value /= <<>>

\* The rows passing the filters of the call other than the value bounds.
WithoutBounds(f) ==
    {row \in Rows(table) :
        _apply_conditions(dialect, table, row,
                          [f EXCEPT !.min_value = <<>>, !.max_value = <<>>])}

\* C29: with min_value or max_value, no row without zonal_value is returned
\* and total and total_records count only rows that have a value within the
\* bounds; without a bound the rows without value are returned and counted.
C29_NullValues ==
    /\ (resp.op = "list" /\ Complete) =>
           IF HasBound(resp.f)
           THEN /\ \A i \in 1..Len(resp.rows) : resp.rows[i].zonal_value /= <<>>
                /\ resp.total =
                       Cardinality({row \in WithoutBounds(resp.f) : InRange(row, resp.f)})
           ELSE /\ \A row \in WithoutBounds(resp.f) : Returned(row)
                /\ resp.total = Cardinality(WithoutBounds(resp.f))
    /\ resp.op = "summary" =>
           resp.summary.total_records =
               IF HasBound(resp.f)
               THEN Cardinality({row \in WithoutBounds(resp.f) : InRange(row, resp.f)})
               ELSE Cardinality(WithoutBounds(resp.f))

\* With an upper bound the row without value is left out and not counted,
\* next to a row that is returned.
C29_Witness ==
    /\ resp.op = "list"
    /\ resp.f.min_value = <<>> /\ resp.f.max_value /= <<>>
    /\ resp.total = 1
    /\ Len(resp.rows) = 1
    /\ \E row \in Rows(table) : row.zonal_value = <<>>

\* The same with a lower bound, in the summary.
C29_WitnessSummary ==
    /\ resp.op = "summary"
    /\ resp.f.min_value /= <<>> /\ resp.f.max_value = <<>>
    /\ resp.summary.total_records = 1
    /\ \E row \in Rows(table) : row.zonal_value = <<>>

\* Without a bound the row without value is returned and counted.
C29_WitnessNoBound ==
    /\ resp.op = "list"
    /\ resp.f = NoFilters
    /\ resp.total = 2
    /\ \E i \in 1..Len(resp.rows) : resp.rows[i].zonal_value = <<>>

----------------------------------------------------------------------------
(* One parser per sheet                                                    *)

\* The entities the last call of ingest_workbook added.
Added == SubSeq(table, resp.before + 1, Len(table))

\* C30: in ingest_workbook the column-mapped parser runs for a sheet only if
\* the BIR parser added no entity for it and dataset_version does not start
\* with "BIR-ZONAL"; the entities of one sheet come from one parser only, no
\* row of a sheet is added twice, and the returned inserted is the number of
\* entities added before the commit.
C30_OneParserPerSheet ==
    resp.op = "ingest" =>
        /\ resp.inserted = Len(Added)
        /\ \A i, j \in 1..Len(Added) :
               (/\ Added[i].source_sheet = Added[j].source_sheet
                /\ Added[i].source_row = Added[j].source_row) => i = j
        /\ \A i, j \in 1..Len(Added) :
               Added[i].source_sheet = Added[j].source_sheet =>
                   (Added[i].property_type = lLand) = (Added[j].property_type = lLand)
        /\ \A k \in 1..Len(resp.parsers) :
               LET of_sheet == {i \in 1..Len(Added) : Added[i].source_sheet = k}
               IN  /\ resp.parsers[k].generic_ran =>
                          /\ resp.parsers[k].bir_inserted = 0
                          /\ ~StartsWith(resp.dataset_version, lBirZonal)
                   /\ ~resp.parsers[k].generic_ran =>
                          Cardinality(of_sheet) = resp.parsers[k].bir_inserted

\* A workbook of two sheets under version v1: the first is read by the BIR
\* parser (a barangay label, then a row with class and value), the second by
\* the column-mapped parser (column headers, then a row).
C30_Witness ==
    /\ resp.op = "ingest"
    /\ resp.dataset_version = tV1
    /\ Len(resp.parsers) = 2
    /\ resp.parsers[1].bir_inserted = 1 /\ ~resp.parsers[1].generic_ran
    /\ resp.parsers[2].bir_inserted = 0 /\ resp.parsers[2].generic_ran
    /\ resp.inserted = 2
    /\ Added[1].property_type = lLand
    /\ Added[2].property_type = NULL

\* A sheet both parsers can read (column headers, a barangay label, a row):
\* only the entity of the BIR parser is added.
C30_WitnessBothCould ==
    /\ resp.op = "ingest"
    /\ Len(resp.sheets) = 1
    /\ Len(resp.sheets[1]) = 3
    /\ resp.parsers[1].bir_inserted = 1
    /\ resp.inserted = 1
    /\ resp.skipped = 2
    /\ \E g \in {ingest_sheet_with_both_parsers(resp.sheets[1], 1,
                                                 resp.dataset_version, 1)} :
           g.inserted = 3

\* In the BIR mode a sheet the BIR parser adds nothing for is not given to the
\* column-mapped parser, which would add a row of it.
C30_WitnessBirMode ==
    /\ resp.op = "ingest"
    /\ bir_dataset_mode(resp.dataset_version)
    /\ ~StartsWith(resp.dataset_version, lBirZonal)
    /\ Len(resp.sheets) = 1
    /\ resp.inserted = 0
    /\ resp.skipped = Len(resp.sheets[1])
    /\ \E g \in {ingest_sheet_with_both_parsers(resp.sheets[1], 1,
                                                 resp.dataset_version, 1)} :
           g.inserted > 0

====
